---- MODULE Spec2Model ----
(***************************************************************************)
(* A model of the compensation-aggregator crawl engine:                    *)
(*   scrape.py            scrape_website / recurse_scrape (the crawl),     *)
(*                        is_job_posting_link, extract_job_postings,       *)
(*                        retry_with_backoff, call_openai_api              *)
(*   html_to_markdown.py  convert_to_markdown, fallback_html_to_markdown   *)
(* The crawl is the specification Spec; each of the other functions has a  *)
(* specification of its own over its own variable.                         *)
(***************************************************************************)
EXTENDS Integers, Sequences, FiniteSets, TLC

VARIABLES
    pc,                 \* position of scrape_website
    start_url,          \* parameter start_url
    max_depth,          \* parameter max_depth
    max_breadth,        \* parameter max_breadth
    sessions,           \* browser sessions created by webdriver.Chrome
    quits,              \* calls of driver.quit
    visited,            \* the set visited
    stack,              \* the call stack of recurse_scrape, innermost frame first
    all_job_postings,   \* the accumulator all_job_postings
    navCount,           \* history: driver.get calls per fragment-stripped URL
    navDeepest,         \* history: the greatest depth of a call that navigated
    lastCut,            \* history: the last truncation of a link list dropped links
    lastRet,            \* history: how the last recurse_scrape call to end ended
    result,             \* what scrape_website returned
    raised,             \* an exception left scrape_website
    world,              \* what the site and the oracle do during the crawl
    cls,                \* one call of is_job_posting_link
    ext,                \* one call of extract_job_postings
    cnv,                \* one call of convert_to_markdown
    bat,                \* one call of scrape_websites
    rty,                \* one call of a function wrapped by with_retry
    sfe,                \* one call of safe_execute
    dyn,                \* one call of safe_repeatedly_scroll and safe_random_clicks
    frg,                \* one call of remove_fragment on the text of a URL
    bko,                \* one call of a function wrapped by retry_with_backoff
    ifr,                \* the iframe loop of one page, with the browser's context
    ssw                 \* one call of safe_scrape_website

vars == <<pc, start_url, max_depth, max_breadth, sessions, quits, visited, stack,
          all_job_postings, navCount, navDeepest, lastCut, lastRet, result, raised,
          world, cls, ext, cnv, bat, rty, sfe, dyn, frg, bko, ifr, ssw>>

----------------------------------------------------------------------------
(* Bounds of the model *)

MaxText == 4            \* characters in an answer of the oracle
MaxChunks == 2          \* chunks in one call of extract_job_postings
MaxElements == 2        \* elements in a JSON array the oracle answers with
MaxNodes == 2           \* elements with text in the HTML of a target page

MaxWork == 4            \* max_depth * max_breadth is at most MaxWork
MaxPath == 2            \* pages of the site are 0 (the start page) .. MaxPath
MaxAnchors == 2         \* anchors in the main document of one page

----------------------------------------------------------------------------
(* URLs.  A URL is a record; an anchor without href has NoHref. *)

Url(site, path, frag) == [scheme |-> "http", site |-> site, path |-> path, frag |-> frag]

NoHref == [scheme |-> "", site |-> "", path |-> 0, frag |-> FALSE]

Paths == 0 .. MaxPath

\* A mailto: link (urlparse gives it no netloc) and a link of the site that does
\* not begin with http
MailTo == [scheme |-> "mailto", site |-> "", path |-> 0, frag |-> FALSE]

FtpUrl == [scheme |-> "ftp", site |-> "self", path |-> 1, frag |-> FALSE]

\* The fragment-stripped URLs of the model
KnownUrls ==
    {Url("self", p, FALSE) : p \in Paths} \cup {Url("other", 1, FALSE), MailTo, FtpUrl}

remove_fragment(href) == [href EXCEPT !.frag = FALSE]

netloc(url) == url.site

startswith_http(url) == url.scheme = "http"

----------------------------------------------------------------------------
(* Character strings, as sequences of characters, for the functions that   *)
(* trim and compare text.                                                  *)

Whitespace == {" "}

RECURSIVE lstrip(_)
lstrip(s) == IF s # <<>> /\ Head(s) \in Whitespace THEN lstrip(Tail(s)) ELSE s

RECURSIVE rstrip(_)
rstrip(s) ==
    IF s # <<>> /\ s[Len(s)] \in Whitespace THEN rstrip(SubSeq(s, 1, Len(s) - 1)) ELSE s

strip(s) == rstrip(lstrip(s))

upper_char(c) ==
    CASE c = "y" -> "Y"
      [] c = "e" -> "E"
      [] c = "s" -> "S"
      [] OTHER -> c

upper(s) == [i \in 1 .. Len(s) |-> upper_char(s[i])]

YES == <<"Y", "E", "S">>

Chars == {" ", "Y", "y", "E", "e", "S", "s", "N"}

RECURSIVE SeqsUpTo(_, _)
SeqsUpTo(S, n) ==
    IF n = 0 THEN {<<>>}
    ELSE LET shorter == SeqsUpTo(S, n - 1)
         IN  shorter \cup {Append(t, x) : t \in shorter, x \in S}

Texts == SeqsUpTo(Chars, MaxText)

----------------------------------------------------------------------------
(* The oracle (client.chat.completions.create) either answers with a text  *)
(* or fails with an exception.                                             *)

Answer(text) == [kind |-> "answer", text |-> text]

OracleError == [kind |-> "error", text |-> <<>>]

\* call_openai_api: the trimmed answer, and "" when the call raised.
call_openai_api(outcome) ==
    IF outcome.kind = "answer" THEN strip(outcome.text) ELSE <<>>

yes_response_contains(response) ==
    \E i \in 1 .. Len(response) - 2 : SubSeq(upper(response), i, i + 2) = YES

\* return response.strip().upper() == "YES"
yes_response(response) == upper(strip(response)) = YES

is_job_posting_link_yes_on_error(link) ==
    IF link.text = "" /\ link.href = NoHref THEN FALSE
    ELSE link.oracle.kind = "error" \/ yes_response(call_openai_api(link.oracle))

\* is_job_posting_link(link) as recurse_scrape sees it: a boolean; the function
\* raises nothing (see ClsEnter, ClsOracle, ClsWrapper for its steps).
is_job_posting_link(link) ==
    IF link.text = "" /\ link.href = NoHref THEN FALSE
    ELSE yes_response(call_openai_api(link.oracle))

retry_with_backoff_once_more(max_tries, attempt, ended) ==
    CASE ended = "value" -> "return"
      [] ended = "retryable" -> IF attempt = max_tries THEN "raise" ELSE "retry"
      [] OTHER -> "raise"

\* The wrapper of retry_with_backoff(max_tries, ...) after attempt number `attempt`
\* (from 0) of the wrapped function ended with a value, with an exception of a
\* retryable type (RequestException, socket.error, TimeoutException) or with
\* another exception.
retry_with_backoff(max_tries, attempt, ended) ==
    CASE ended = "value" -> "return"
      [] ended = "retryable" -> IF attempt = max_tries - 1 THEN "raise" ELSE "retry"
      [] OTHER -> "raise"

----------------------------------------------------------------------------
(* What the browser shows on a page.  An anchor has an href, a text (an    *)
(* atom: "apply" stands for any text that contains apply or submit), the   *)
(* zone of the document it is in, and the outcome of the oracle call made  *)
(* when it is classified.  A page has iframes and the anchors of its main  *)
(* document in document order.                                             *)

Anchor(href, text, zone, oracle) ==
    [href |-> href, text |-> text, zone |-> zone, oracle |-> oracle]

Anchors ==
    {Anchor(Url("self", p, FALSE), "plain", "body", Answer(YES)) : p \in Paths}
    \cup {Anchor(Url("self", 1, TRUE), "plain", "body", Answer(YES)),
          Anchor(Url("self", 1, FALSE), "plain", "body", OracleError),
          Anchor(Url("self", MaxPath, FALSE), "plain", "body", Answer(<<>>)),
          Anchor(Url("self", 1, FALSE), "apply", "body", Answer(YES)),
          Anchor(Url("other", 1, FALSE), "apply", "body", Answer(YES)),
          Anchor(Url("self", MaxPath, FALSE), "plain", "header", Answer(YES))}

\* The anchors that only the start page of the site has: a header anchor whose
\* href carries a fragment, a mailto: anchor, an anchor that does not begin with
\* http, and an anchor without href whose text has a keyword.
StartPageAnchors ==
    {Anchor(Url("self", 1, TRUE), "apply", "header", Answer(YES)),
     Anchor(MailTo, "plain", "body", Answer(YES)),
     Anchor(FtpUrl, "plain", "body", Answer(YES)),
     Anchor(NoHref, "apply", "body", Answer(YES))}

AnchorsAt(depth) == IF depth = 0 THEN Anchors \cup StartPageAnchors ELSE Anchors

BodyAnchors(depth) == {a \in AnchorsAt(depth) : a.zone = "body"}

ZoneAnchors(depth) == {a \in AnchorsAt(depth) : a.zone \in {"header", "footer", "nav"}}

\* An iframe: its src, whether switching into it fails, the postings extracted
\* from its content, and the anchors of its document.
Iframe(src, fail, posts, links) ==
    [src |-> src, fail |-> fail, posts |-> posts, links |-> links]

IframeLists ==
    {<<>>,
     <<Iframe(Url("self", MaxPath, FALSE), "none", 1,
              <<Anchor(Url("self", 1, FALSE), "plain", "body", Answer(YES))>>)>>,
     <<Iframe(Url("other", 1, FALSE), "none", 1, <<>>)>>,
     <<Iframe(Url("self", MaxPath, FALSE), "none", 1, <<>>),
       Iframe(Url("other", 1, FALSE), "none", 1, <<>>)>>,
     <<Iframe(Url("self", MaxPath, FALSE), "switch", 0, <<>>)>>}

has_keyword(link_text) == link_text \in {"apply", "submit"}

\* The worlds a crawl can run in.  In "any" the site shows any of the pages above,
\* every browser call and every oracle call can fail, and an extraction yields zero
\* or one posting.  In "oracle down" the site is any site and every call of the
\* oracle fails.  In "scenario A" nothing fails, the start page has one anchor, with
\* the text "Apply Now", that the oracle answers YES for and that leads to a detail
\* page with an apply signal, no page has iframes or header, footer or nav anchors,
\* and every extraction yields one posting.
Worlds == {"any", "oracle down", "scenario A"}

ApplyNow == Anchor(Url("self", 1, FALSE), "apply", "body", Answer(YES))

\* The anchor as the crawl meets it: the oracle call for it fails when the oracle
\* is down.
Met(link) == IF world = "oracle down" THEN [link EXCEPT !.oracle = OracleError] ELSE link

\* The iframe lists a page can have
IframesOffered ==
    CASE world = "scenario A" -> {<<>>}
      [] world = "oracle down" ->
            {[i \in 1 .. Len(fs) |->
                 [fs[i] EXCEPT !.posts = 0,
                               !.links = [k \in 1 .. Len(fs[i].links) |-> Met(fs[i].links[k])]]]
             : fs \in IframeLists}
      [] OTHER -> IframeLists

\* The anchors the main document of a page at `depth` can have, outside and inside
\* header, footer and nav
BodyOffered(depth) ==
    IF world = "scenario A" /\ depth = 0 THEN {ApplyNow} ELSE BodyAnchors(depth)

ZoneOffered(depth) == IF world = "scenario A" THEN {} ELSE ZoneAnchors(depth)

\* The loop over the anchors of the page of `frame` can go on, and can end.
MoreAnchors(frame) == ~(world = "scenario A" /\ frame.depth = 0 /\ frame.seen = 1)

PageEnds(frame) ==
    world = "scenario A" => IF frame.depth = 0 THEN frame.seen = 1 ELSE frame.apply

\* The postings one extraction can yield
ExtractCounts ==
    CASE world = "scenario A" -> {1}
      [] world = "oracle down" -> {0}
      [] OTHER -> 0 .. 1

\* Browser calls can fail.
BrowserFails == world # "scenario A"

Posting(src) == [src |-> src]

\* The postings one convert + extract of `src` appends: n postings of that page.
Postings(src, n) == [i \in 1 .. n |-> Posting(src)]

----------------------------------------------------------------------------
(* recurse_scrape: the pure parts of one page step *)

\* domain = urlparse(start_url).netloc
domain == netloc(start_url)

at_depth_limit_off_by_one(depth) == depth > max_depth

\* if depth >= max_depth: return
at_depth_limit(depth) == depth >= max_depth

\* The clean hrefs of the anchors that pass the filter and are classified as job
\* links, in the order of the anchors.
link_filter_any_site(clean_href, vis, ignored) ==
    clean_href \notin ignored /\ clean_href \notin vis

\* parsed_href.netloc == domain and clean_href not in ignored_links and
\* clean_href.startswith("http") and clean_href not in visited
link_filter(clean_href, vis, ignored) ==
    /\ netloc(clean_href) = domain
    /\ clean_href \notin ignored
    /\ startswith_http(clean_href)
    /\ clean_href \notin vis

RECURSIVE candidate_links(_, _, _)
candidate_links(anchors, vis, ignored) ==
    IF anchors = <<>> THEN <<>>
    ELSE LET link == Head(anchors)
             clean_href == remove_fragment(link.href)
             rest == candidate_links(Tail(anchors), vis, ignored)
         IN  IF /\ link.href # NoHref
                /\ link_filter(clean_href, vis, ignored)
                /\ is_job_posting_link(link)
             THEN <<clean_href>> \o rest
             ELSE rest

\* The hrefs of the links of the loop that is_job_posting_link is called for
asked_links(anchors, vis, ignored) ==
    {anchors[i].href : i \in {j \in 1 .. Len(anchors) :
        /\ anchors[j].href # NoHref
        /\ link_filter(remove_fragment(anchors[j].href), vis, ignored)}}

extend_in_front(all_postings, postings) == postings \o all_postings

extend_replaces(all_postings, postings) == postings

\* all_postings.extend(postings), all_job_postings.extend(job_data)
extend(all_postings, postings) == all_postings \o postings

add_forgets(vis, url) == {url}

add_nothing(vis, url) == vis

\* visited.add(url)
add(vis, url) == vis \cup {url}

\* The iframe loop: every iframe with a src not yet visited is marked visited,
\* converted and extracted, and its links are classified; a failure inside one
\* iframe ends that iframe only.
RECURSIVE process_iframes(_, _, _, _, _)
process_iframes(iframes, vis, valid, posts, asked) ==
    IF iframes = <<>>
    THEN [visited |-> vis, valid |-> valid, posts |-> posts, asked |-> asked]
    ELSE LET iframe == Head(iframes)
             marked == add(vis, iframe.src)
         IN  IF iframe.src # NoHref /\ iframe.src \notin vis
             THEN IF iframe.fail = "switch"
                  THEN process_iframes(Tail(iframes), marked, valid, posts, asked)
                  ELSE process_iframes(Tail(iframes), marked,
                                       valid \o candidate_links(iframe.links, marked, {}),
                                       extend(posts, Postings(iframe.src, iframe.posts)),
                                       asked \cup asked_links(iframe.links, marked, {}))
             ELSE process_iframes(Tail(iframes), vis, valid, posts, asked)

\* footer_links.union(header_links, nav_links): the hrefs of the anchors inside
\* header, footer and nav elements, as the anchors carry them
ignored_links(zoned) == {a.href : a \in {z \in zoned : z.href # NoHref}}

apply_link_found_if_followable(found, link) ==
    IF link.href = NoHref THEN found
    ELSE found \/ (has_keyword(link.text) /\ netloc(remove_fragment(link.href)) = domain)

\* One turn of the loop over page_links: the new value of apply_link_found
apply_link_found(found, link) ==
    IF link.href = NoHref THEN found ELSE found \/ has_keyword(link.text)

after_scan_extracts_listing(kept, apply) ==
    IF kept = <<>> /\ ~apply THEN "dead end" ELSE "extract"

\* After the truncation: "if not valid_job_posting_links and not apply_link_found:
\* return", then "if apply_link_found:" the conversion and the extraction, else
\* straight to the final loop.
after_scan(kept, apply) ==
    IF kept = <<>> /\ ~apply THEN "dead end"
    ELSE IF apply THEN "extract"
    ELSE "recurse"

truncate_keeps_last(links, breadth) ==
    SubSeq(links, IF Len(links) < breadth THEN 1 ELSE Len(links) - breadth + 1, Len(links))

\* valid_job_posting_links[:max_breadth]
truncate(links, breadth) ==
    SubSeq(links, 1, IF Len(links) < breadth THEN Len(links) ELSE breadth)

page_failed_raises(stk) == [stack |-> <<>>, raised |-> TRUE]

page_failed_retries(stk) ==
    [stack |-> <<[Head(stk) EXCEPT !.phase = "enter"]>> \o Tail(stk), raised |-> FALSE]

\* except Exception as e: print(...)  -- the frame of the failed page is left and
\* its caller goes on; nothing is raised.
page_failed(stk) == [stack |-> Tail(stk), raised |-> FALSE]

after_launch_goes_on(outcome) ==
    IF outcome = "none"
    THEN [pc |-> "begin", result |-> "none", created |-> 0]
    ELSE [pc |-> "configure", result |-> "none", created |-> 1]

\* The outer try around the creation of the browser: when neither
\* webdriver.Chrome(service=service, options=options) nor webdriver.Chrome(options=
\* options) gives a driver, "return pd.DataFrame()"; otherwise one session exists
\* and the function goes on.
after_launch(outcome) ==
    IF outcome = "none"
    THEN [pc |-> "done", result |-> "empty", created |-> 0]
    ELSE [pc |-> "configure", result |-> "none", created |-> 1]

----------------------------------------------------------------------------
(* scrape_website as a state machine *)

NavCap == 2     \* navCount counts the navigations of one URL up to NavCap

Frame(url, depth) ==
    [url |-> url, depth |-> depth, phase |-> "enter",
     ignored |-> {},            \* ignored_links
     pending |-> {},            \* header/footer/nav anchors page_links has yet to yield
     seen |-> 0,                \* anchors of page_links looped over so far
     apply |-> FALSE,           \* apply_link_found
     classified |-> <<>>,       \* valid_job_posting_links before the truncation
     asked |-> {},              \* history: the hrefs is_job_posting_link was called for
     keyworded |-> {},          \* history: the hrefs of the anchors met with a keyword text
     links |-> <<>>,            \* valid_job_posting_links after the truncation
     idx |-> 1,                 \* the next link of the final loop
     called |-> <<>>]           \* history: the recursive calls made so far

Top == Head(stack)

InPage(phase) == pc = "crawl" /\ stack # <<>> /\ Top.phase = phase

\* The top frame with some fields changed stays on top.
Replace(frame) == stack' = <<frame>> \o Tail(stack)

\* The page of the top frame failed.
Fail ==
    /\ stack' = page_failed(stack).stack
    /\ raised' = page_failed(stack).raised
    /\ lastRet' = "failed"

\* The call of the top frame returns.
Return(why) ==
    /\ stack' = Tail(stack)
    /\ lastRet' = why
    /\ UNCHANGED raised

params == <<start_url, max_depth, max_breadth, world>>

nav == <<navCount, navDeepest, lastCut>>

units == <<cls, ext, cnv, bat, rty, sfe, dyn, frg, bko, ifr, ssw>>

\* The machines of retry_with_backoff, of the iframe loop and of
\* safe_scrape_website
late == <<bko, ifr, ssw>>

crawlState == <<params, pc, sessions, quits, visited, stack, all_job_postings, nav,
                lastRet, result, raised>>

StartUrls == {Url("self", 0, FALSE), Url("self", 0, TRUE)}

InitCrawl ==
    /\ pc = "start"
    /\ start_url \in StartUrls
    /\ max_depth \in 1 .. MaxWork
    /\ max_breadth \in 1 .. MaxWork
    /\ max_depth * max_breadth <= MaxWork
    /\ world \in Worlds
    /\ world = "scenario A" => max_depth = 2
    /\ sessions = 0
    /\ quits = 0
    /\ visited = {}
    /\ stack = <<>>
    /\ all_job_postings = <<>>
    /\ navCount = [u \in KnownUrls |-> 0]
    /\ navDeepest = -1
    /\ lastCut = FALSE
    /\ lastRet = "none"
    /\ result = "none"
    /\ raised = FALSE

\* webdriver.Chrome(service=..., options=...), and webdriver.Chrome(options=...)
\* when that raises; when both raise, pd.DataFrame() is returned.
LaunchBrowser ==
    /\ pc = "start"
    /\ \E outcome \in {"service", "fallback"} \cup (IF BrowserFails THEN {"none"} ELSE {}) :
          LET after == after_launch(outcome)
          IN  /\ pc' = after.pc
              /\ result' = after.result
              /\ sessions' = sessions + after.created
    /\ UNCHANGED <<params, quits, visited, stack, all_job_postings, nav, lastRet,
                   raised, units>>

\* driver.set_page_load_timeout(timeout); WebDriverWait(...) -- inside the same try:
\* when one raises, pd.DataFrame() is returned.
ConfigureSession ==
    /\ pc = "configure"
    /\ \E ok \in {TRUE} \cup (IF BrowserFails THEN {FALSE} ELSE {}) :
          IF ok
          THEN pc' = "begin" /\ UNCHANGED result
          ELSE pc' = "done" /\ result' = "empty"
    /\ UNCHANGED <<params, sessions, quits, visited, stack, all_job_postings, nav,
                   lastRet, raised, units>>

\* visited.add(start_url); recurse_scrape(start_url, 0)
StartRecursion ==
    /\ pc = "begin"
    /\ pc' = "crawl"
    /\ visited' = add(visited, start_url)
    /\ stack' = <<Frame(start_url, 0)>>
    /\ UNCHANGED <<params, sessions, quits, all_job_postings, nav, lastRet, result,
                   raised, units>>

\* if depth >= max_depth: return
ReturnAtDepthLimit ==
    /\ InPage("enter")
    /\ at_depth_limit(Top.depth)
    /\ Return("leaf")
    /\ UNCHANGED <<pc, params, sessions, quits, visited, all_job_postings, nav,
                   result, units>>

Count(u) == IF navCount[u] < NavCap THEN navCount[u] + 1 ELSE navCount[u]

\* driver.get(url); wait.until(body present); then the scrolls and the random
\* clicks, which raise nothing
Navigate ==
    /\ InPage("enter")
    /\ ~at_depth_limit(Top.depth)
    /\ navCount' = [navCount EXCEPT ![remove_fragment(Top.url)] = Count(remove_fragment(Top.url))]
    /\ navDeepest' = IF Top.depth > navDeepest THEN Top.depth ELSE navDeepest
    /\ UNCHANGED lastCut
    /\ \E outcome \in {"loaded"} \cup (IF BrowserFails THEN {"get fails", "wait fails"}
                                                        ELSE {}) :
          IF outcome = "loaded"
          THEN /\ Replace([Top EXCEPT !.phase = "iframes"])
               /\ UNCHANGED <<lastRet, raised>>
          ELSE Fail
    /\ UNCHANGED <<pc, params, sessions, quits, visited, all_job_postings, result, units>>

\* for iframe in iframe_elements: ...
ScanIframes ==
    /\ InPage("iframes")
    /\ \E iframes \in IframesOffered :
          LET done == process_iframes(iframes, visited, <<>>, <<>>, {})
          IN  /\ visited' = done.visited
              /\ all_job_postings' = extend(all_job_postings, done.posts)
              /\ Replace([Top EXCEPT !.phase = "zones", !.classified = done.valid,
                                      !.asked = done.asked])
    /\ UNCHANGED <<pc, params, sessions, quits, nav, lastRet, result, raised, units>>

\* The anchors inside footer, header and nav elements are collected.
CollectIgnored ==
    /\ InPage("zones")
    /\ \E zoned \in SUBSET ZoneOffered(Top.depth) :
          Replace([Top EXCEPT !.phase = "links", !.ignored = ignored_links(zoned),
                              !.pending = zoned])
    /\ UNCHANGED <<pc, params, sessions, quits, visited, all_job_postings, nav,
                   lastRet, result, raised, units>>

\* The detail page of scenario A has an apply signal: when its other anchors
\* gave none, its last anchor gives it.
LastAnchorFits(frame, link) ==
    (world = "scenario A" /\ frame.depth > 0 /\ ~frame.apply
                          /\ frame.seen = MaxAnchors - 1)
        => apply_link_found(FALSE, link)

\* One turn of the loop over page_links, for the next anchor of the document: an
\* anchor of the body, or one of those inside a header, footer or nav element.
ScanLink ==
    /\ InPage("links")
    /\ Top.seen < MaxAnchors
    /\ MoreAnchors(Top)
    /\ \E link \in BodyOffered(Top.depth) \cup Top.pending :
          /\ LastAnchorFits(Top, link)
          /\ Replace([Top EXCEPT !.seen = @ + 1,
                                 !.pending = @ \ {link},
                                 !.apply = apply_link_found(@, link),
                                 !.keyworded = @ \cup IF has_keyword(link.text)
                                                      THEN {link.href} ELSE {},
                                 !.classified = @ \o candidate_links(<<Met(link)>>, visited,
                                                                     Top.ignored),
                                 !.asked = @ \cup asked_links(<<link>>, visited,
                                                              Top.ignored)])
    /\ UNCHANGED <<pc, params, sessions, quits, visited, all_job_postings, nav,
                   lastRet, result, raised, units>>

\* After the loop: the truncation and the dead-end test.  The locals the rest of
\* the call does not read are dropped from the frame.
FinishScan ==
    /\ InPage("links")
    /\ Top.pending = {}
    /\ PageEnds(Top)
    /\ LET kept == truncate(Top.classified, max_breadth)
           branch == after_scan(kept, Top.apply)
       IN  IF branch = "dead end"
           THEN Return("dead end")
           ELSE /\ Replace([Frame(Top.url, Top.depth) EXCEPT !.phase = branch,
                                                             !.links = kept])
                /\ UNCHANGED <<lastRet, raised>>
    /\ lastCut' = (Len(Top.classified) > max_breadth)
    /\ UNCHANGED <<pc, params, sessions, quits, visited, all_job_postings, navCount,
                   navDeepest, result, units>>

\* A browser call of the scan raises (find_elements, get_attribute, text).
ScanFails ==
    /\ pc = "crawl" /\ stack # <<>> /\ Top.phase \in {"iframes", "zones", "links"}
    /\ BrowserFails
    /\ Fail
    /\ UNCHANGED <<pc, params, sessions, quits, visited, all_job_postings, nav,
                   result, units>>

\* markdown_content = convert_to_markdown(url); job_data = extract_job_postings(...);
\* neither raises.
ExtractPage ==
    /\ InPage("extract")
    /\ \E n \in ExtractCounts :
          all_job_postings' = extend(all_job_postings, Postings(Top.url, n))
    /\ Replace([Top EXCEPT !.phase = "recurse"])
    /\ UNCHANGED <<pc, params, sessions, quits, visited, nav, lastRet, result,
                   raised, units>>

next_link_last_first(links, idx) == links[Len(links) + 1 - idx]

\* "for link_url in valid_job_posting_links:" yields the links in the order of
\* the list, which is the order the scan appended them in.
next_link(links, idx) == links[idx]

\* One turn of the final loop: visited.add(link_url); recurse_scrape(link_url, depth + 1)
RecurseInto ==
    /\ InPage("recurse")
    /\ Top.idx <= Len(Top.links)
    /\ LET link_url == next_link(Top.links, Top.idx)
       IN  /\ visited' = add(visited, link_url)
           /\ stack' = <<Frame(link_url, Top.depth + 1),
                         [Top EXCEPT !.idx = @ + 1, !.called = Append(@, link_url)]>>
                       \o Tail(stack)
    /\ UNCHANGED <<pc, params, sessions, quits, all_job_postings, nav, lastRet,
                   result, raised, units>>

\* The final loop is over: recurse_scrape returns.
ReturnPage ==
    /\ InPage("recurse")
    /\ Top.idx > Len(Top.links)
    /\ Return("done")
    /\ UNCHANGED <<pc, params, sessions, quits, visited, all_job_postings, nav,
                   result, units>>

\* df = pd.DataFrame(all_job_postings); return df; finally: driver.quit()
FinishCrawl ==
    /\ pc = "crawl"
    /\ stack = <<>>
    /\ pc' = "done"
    /\ quits' = quits + 1
    /\ result' = IF raised THEN "none" ELSE "df"
    /\ UNCHANGED <<params, sessions, visited, stack, all_job_postings, nav, lastRet,
                   raised, units>>

NextCrawl ==
    \/ LaunchBrowser
    \/ ConfigureSession
    \/ StartRecursion
    \/ ReturnAtDepthLimit
    \/ Navigate
    \/ ScanIframes
    \/ CollectIgnored
    \/ ScanLink
    \/ FinishScan
    \/ ScanFails
    \/ ExtractPage
    \/ RecurseInto
    \/ ReturnPage
    \/ FinishCrawl

----------------------------------------------------------------------------
(* is_job_posting_link, decorated with retry_with_backoff(max_tries=2,     *)
(* backoff_factor=1), as a state machine over cls                          *)

ClassifyMaxTries == 2

OracleOutcomes == {Answer(t) : t \in Texts} \cup {OracleError}

NoOutcome == [kind |-> "none", text |-> <<>>]

ClsIdle ==
    [pc |-> "idle", no_text |-> FALSE, no_href |-> FALSE, stale |-> FALSE, attempt |-> 0,
     calls |-> 0,               \* history: calls of the oracle
     first |-> NoOutcome,       \* history: the outcome of the first of them
     ended |-> "none", value |-> FALSE, raised |-> FALSE]

\* is_job_posting_link(link) is called: a link whose text or href may be empty and
\* whose element may have gone stale.
InitClassify ==
    \E no_text \in BOOLEAN, no_href \in BOOLEAN, stale \in BOOLEAN :
        cls = [ClsIdle EXCEPT !.pc = "attempt", !.no_text = no_text, !.no_href = no_href,
                              !.stale = stale]

\* An attempt of the wrapper runs the body up to the oracle call: reading the
\* link of a stale element raises StaleElementReferenceException, which the body
\* catches (return False); a link with neither text nor href returns False.
ClsEnter ==
    /\ cls.pc = "attempt"
    /\ cls' = IF cls.stale \/ (cls.no_text /\ cls.no_href)
              THEN [cls EXCEPT !.pc = "ended", !.ended = "value", !.value = FALSE]
              ELSE [cls EXCEPT !.pc = "oracle"]
    /\ UNCHANGED <<crawlState, ext, cnv, bat, rty, sfe, dyn, frg, late>>

\* response = call_openai_api(...); return response.strip().upper() == "YES"
ClsOracle ==
    /\ cls.pc = "oracle"
    /\ \E outcome \in OracleOutcomes :
          cls' = [cls EXCEPT !.pc = "ended",
                             !.calls = @ + 1,
                             !.first = IF cls.calls = 0 THEN outcome ELSE @,
                             !.ended = "value",
                             !.value = yes_response(call_openai_api(outcome))]
    /\ UNCHANGED <<crawlState, ext, cnv, bat, rty, sfe, dyn, frg, late>>

\* The wrapper: return the value, or retry or re-raise after an exception.
ClsWrapper ==
    /\ cls.pc = "ended"
    /\ LET next == retry_with_backoff(ClassifyMaxTries, cls.attempt, cls.ended)
       IN  cls' = CASE next = "return" -> [cls EXCEPT !.pc = "done"]
                    [] next = "retry" -> [cls EXCEPT !.pc = "attempt", !.attempt = @ + 1]
                    [] OTHER -> [cls EXCEPT !.pc = "done", !.raised = TRUE]
    /\ UNCHANGED <<crawlState, ext, cnv, bat, rty, sfe, dyn, frg, late>>

NextClassify == ClsEnter \/ ClsOracle \/ ClsWrapper

----------------------------------------------------------------------------
(* extract_job_postings, decorated with retry_with_backoff(max_tries=2,    *)
(* backoff_factor=1), as a state machine over ext                          *)

ExtractMaxTries == 2

CanonicalKeys ==
    {"title", "description", "salary_range", "responsibilities", "location",
     "qualification"}

\* JSON values: an object with its members (a string or null each), an array with
\* its elements, any other value, and a text that is not JSON.
JsonObject(fields) == [type |-> "object", fields |-> fields, items |-> <<>>]

NoFields == [k \in {} |-> "str"]

JsonScalar == [type |-> "scalar", fields |-> NoFields, items |-> <<>>]

JsonArray(items) == [type |-> "array", fields |-> NoFields, items |-> items]

NotJson == [type |-> "invalid", fields |-> NoFields, items |-> <<>>]

Elements ==
    {JsonObject([k \in CanonicalKeys |-> "str"]),
     JsonObject([k \in CanonicalKeys \ {"salary_range"} |-> "str"]),
     JsonObject([k \in CanonicalKeys \cup {"company"} |->
                    IF k = "location" THEN "null" ELSE "str"]),
     JsonScalar}

Bodies ==
    {NotJson}
    \cup {e \in Elements : TRUE}
    \cup {JsonArray(items) : items \in SeqsUpTo(Elements, MaxElements)}

\* An answer of the extraction oracle: the tokens before the JSON text, the JSON
\* text, and the tokens after it.  "fence" is a code fence
\* (three backticks), "json" the word json in any letter case, " " white space.
ExtractAnswers ==
    {[lead |-> lead, body |-> body, trail |-> trail] :
        lead \in {<<>>, <<"json", " ">>, <<"fence", "json", " ">>},
        body \in Bodies,
        trail \in {<<>>, <<" ", "fence">>}}

ExtractOutcomes == {Answer(t) : t \in ExtractAnswers} \cup {OracleError}

EmptyAnswer == [lead |-> <<>>, body |-> NotJson, trail |-> <<>>]

\* call_openai_api for an answer in tokens: the trimmed answer, "" on an exception
call_openai_api_tokens(outcome) ==
    IF outcome.kind = "answer"
    THEN [outcome.text EXCEPT !.lead = lstrip(@), !.trail = rstrip(@)]
    ELSE EmptyAnswer

\* clean_response = response_text.strip(); re.sub(r"^(?:json)?\s*", "", ...);
\* re.sub(r"\s*$", "", ...)
clean_response(response_text) ==
    LET stripped == [response_text EXCEPT !.lead = lstrip(@), !.trail = rstrip(@)]
        no_json == IF stripped.lead # <<>> /\ Head(stripped.lead) = "json"
                   THEN Tail(stripped.lead) ELSE stripped.lead
    IN  [stripped EXCEPT !.lead = lstrip(no_json), !.trail = rstrip(@)]

\* json.loads(clean_response): the value, or NotJson for a JSONDecodeError
json_loads(text) ==
    IF text.lead = <<>> /\ text.trail = <<>> THEN text.body ELSE NotJson

\* What one chunk adds to all_postings: a dict is wrapped into a list, a list is
\* added element by element, anything else adds nothing.
postings_of(value) ==
    CASE value.type = "object" -> <<value>>
      [] value.type = "array" -> value.items
      [] OTHER -> <<>>


\* The answer without its code fence: the JSON text alone.
unfence(text) == [text EXCEPT !.lead = <<>>, !.trail = <<>>]

\* The answer is a JSON array between an opening code fence, with or without the
\* word json after it, and a closing code fence.
IsFencedArray(outcome) ==
    /\ outcome.kind = "answer"
    /\ outcome.text.body.type = "array"
    /\ outcome.text.lead # <<>> /\ Head(outcome.text.lead) = "fence"
    /\ outcome.text.trail # <<>> /\ outcome.text.trail[Len(outcome.text.trail)] = "fence"

\* What extract_job_postings adds to all_postings for one answer of the oracle
added_for(outcome) == postings_of(json_loads(clean_response(call_openai_api_tokens(outcome))))

\* The answer, with white space and the word json before it and white space
\* after it set aside, is a JSON text.
ParsesAsJson(outcome) ==
    /\ outcome.kind = "answer"
    /\ outcome.text.body.type # "invalid"
    /\ SelectSeq(outcome.text.lead, LAMBDA t : t \notin Whitespace) \in {<<>>, <<"json">>}
    /\ SelectSeq(outcome.text.trail, LAMBDA t : t \notin Whitespace) = <<>>

\* The postings of an answer that parses: the elements of an array in their
\* order, an object as one posting.
Contribution(outcome) ==
    IF ~ParsesAsJson(outcome) THEN <<>>
    ELSE CASE outcome.text.body.type = "array" -> outcome.text.body.items
           [] outcome.text.body.type = "object" -> <<outcome.text.body>>
           [] OTHER -> <<>>

ExtIdle ==
    [pc |-> "idle", chunks |-> 0, done |-> 0, attempt |-> 0, ended |-> "none",
     all_postings |-> <<>>, raised |-> FALSE,
     expected |-> <<>>,         \* history: the postings of the answers that parse, in order
     dropped |-> FALSE,         \* history: an answer before the last one did not parse
     parsed |-> FALSE,          \* history: the last answer parsed
     fenced |-> FALSE,          \* history: the last answer was a fenced JSON array
     added |-> <<>>,            \* history: what the last answer added, if fenced
     unfenced |-> <<>>]         \* history: what it adds without its code fence

InitExtract == \E n \in 0 .. MaxChunks : ext = [ExtIdle EXCEPT !.pc = "chunks", !.chunks = n]

\* One turn of the loop over dom_chunks.  No exception leaves the turn.
ExtChunk ==
    /\ ext.pc = "chunks"
    /\ ext.done < ext.chunks
    /\ \E outcome \in ExtractOutcomes :
          LET postings == added_for(outcome)
          IN  ext' = [ext EXCEPT !.done = @ + 1,
                                 !.all_postings = extend(@, postings),
                                 !.expected = @ \o Contribution(outcome),
                                 !.dropped = @ \/ (ext.done > 0 /\ ~ext.parsed),
                                 !.parsed = ParsesAsJson(outcome),
                                 !.fenced = IsFencedArray(outcome),
                                 !.added =
                                     IF IsFencedArray(outcome) THEN postings ELSE <<>>,
                                 !.unfenced =
                                     IF IsFencedArray(outcome)
                                     THEN added_for(Answer(unfence(outcome.text)))
                                     ELSE <<>>]
    /\ UNCHANGED <<crawlState, cls, cnv, bat, rty, sfe, dyn, frg, late>>

\* return all_postings, and the wrapper, which returns it.
ExtReturn ==
    /\ ext.pc = "chunks"
    /\ ext.done = ext.chunks
    /\ LET next == retry_with_backoff(ExtractMaxTries, ext.attempt, "value")
       IN  ext' = CASE next = "return" -> [ext EXCEPT !.pc = "done", !.ended = "value"]
                    [] next = "retry" -> [ExtIdle EXCEPT !.pc = "chunks",
                                                         !.chunks = ext.chunks,
                                                         !.attempt = ext.attempt + 1]
                    [] OTHER -> [ext EXCEPT !.pc = "done", !.raised = TRUE]
    /\ UNCHANGED <<crawlState, cls, cnv, bat, rty, sfe, dyn, frg, late>>

NextExtract == ExtChunk \/ ExtReturn

----------------------------------------------------------------------------
(* convert_to_markdown and fallback_html_to_markdown, as a state machine   *)
(* over cnv                                                                *)

MAX_RETRIES == 3

\* What one requests.get of _get_with_retry ends with: a response whose status is
\* a success, or an exception of requests (raise_for_status included), or another
\* exception.
\* How requests.get ends: a response with a success status, a response with
\* another status, a RequestException, an exception of another type
HttpEnds == {"200", "503", "RequestException", "other exception"}

raise_for_status_accepts(got) ==
    IF got \in {"200", "503"} THEN "response" ELSE got

\* resp.raise_for_status() inside _get_with_retry: a status that is not a success
\* raises HTTPError, which is a RequestException.
raise_for_status(got) ==
    CASE got = "200" -> "response"
      [] got = "503" -> "RequestException"
      [] OTHER -> got

\* How one call of _get_with_retry's function ends
RequestEnds == {raise_for_status(got) : got \in HttpEnds}

request_ended(how) ==
    CASE how = "response" -> "value"
      [] how = "RequestException" -> "retryable"
      [] OTHER -> "other"

after_primary_propagates(how) ==
    CASE how = "content" -> "return"
      [] how = "RequestException" -> "raise"
      [] OTHER -> "fallback"

\* convert_to_markdown after the primary request: valid content is returned; error
\* content, an empty body, a RequestException after the retries and any other
\* exception fall through to the fallback.
after_primary(how) ==
    CASE how = "content" -> "return"
      [] OTHER -> "fallback"

\* The bodies the conversion service answers with, as sequences of words: "Error:"
\* is the error marker.
ServiceBodies == {<<>>, <<"Error:">>, <<"Error:", "Jobs">>, <<"Jobs">>, <<"Jobs", "Error:">>}

\* content.startswith("Error:")
startswith_error(content) == content # <<>> /\ Head(content) = "Error:"

content_check_accepts_all(body) == "content"

content_check_rejects_all(body) == "error content"

\* if content and not content.startswith("Error:")
content_check(body) ==
    IF body # <<>> /\ ~startswith_error(body) THEN "content" ELSE "error content"

\* The HTML of a target page: its elements with text, in document order, one line
\* of text each.  "nav" stands for script, style, nav, footer and header.
HtmlLines ==
    {"", "Engineer", "A line of fifty characters", "A line of ninety characters",
     "Duties:", "1. item"}

HtmlNodes == {[tag |-> tag, line |-> line] : tag \in {"p", "nav"}, line \in HtmlLines}

HtmlPages == SeqsUpTo(HtmlNodes, MaxNodes)

\* for script in soup(["script", "style", "nav", "footer", "header"]): script.extract()
\* soup.get_text(separator='\n'), and the chunks that are not empty
RECURSIVE visible_text(_)
visible_text(page) ==
    IF page = <<>> THEN <<>>
    ELSE LET node == Head(page)
         IN  IF node.tag = "nav" \/ node.line = ""
             THEN visible_text(Tail(page))
             ELSE <<node.line>> \o visible_text(Tail(page))

\* The markdown formatting of one line
format_line(line) ==
    CASE line = "Engineer" -> "## Engineer"
      [] line = "A line of fifty characters" -> "### A line of fifty characters"
      [] line = "Duties:" -> "### Duties:"
      [] OTHER -> line

html_to_text(page) ==
    LET text == visible_text(page) IN [i \in 1 .. Len(text) |-> format_line(text[i])]

ErrorMarker == <<"Error converting">>

\* What fallback_html_to_markdown returns: the markdown it built, or the error
\* marker f"Error converting {url}: ..." after an exception.
fallback_result(how, raises, page) ==
    IF how = "response" /\ ~raises THEN html_to_text(page) ELSE ErrorMarker

CnvIdle ==
    [pc |-> "idle", attempt |-> 0,
     requests |-> 0,            \* history: requests to the conversion service
     failures |-> 0,            \* history: those that ended with an exception
     primary |-> "none",        \* history: what the primary request ended with
     content |-> <<>>,          \* history: response.text of the conversion service
     page |-> <<>>,             \* the HTML the target URL answers with
     fb_ended |-> "none",       \* history: what the fallback's request ended with
     parse_raised |-> FALSE,    \* history: the parsing of the fallback raised
     fb_attempt |-> 0,
     fb_requests |-> 0,         \* history: direct requests to the target URL
     fallback_calls |-> 0,      \* history: calls of fallback_html_to_markdown
     fb_result |-> <<>>,        \* history: what the fallback returned
     log |-> <<>>,              \* history: how each request ended, in order
     wire |-> <<>>,             \* history: where each request went and how it ended
     result |-> <<>>, raised |-> FALSE]

InitConvert == \E page \in HtmlPages : cnv = [CnvIdle EXCEPT !.pc = "primary", !.page = page]

\* The fallback is called.
CallFallback(c) == [c EXCEPT !.pc = "fallback", !.fallback_calls = @ + 1]

\* One attempt of the primary _get_with_retry, then the wrapper, then, when the
\* wrapper is through, what convert_to_markdown does with the outcome.
CnvPrimary ==
    /\ cnv.pc = "primary"
    /\ \E got \in HttpEnds, body \in ServiceBodies :
          LET how == raise_for_status(got)
              tried == [cnv EXCEPT !.requests = @ + 1, !.log = Append(@, how),
                                   !.wire = Append(@, [to |-> "service", got |-> got]),
                                   !.failures = IF how = "response" THEN @ ELSE @ + 1]
              next == retry_with_backoff(MAX_RETRIES, cnv.attempt, request_ended(how))
              outcome == IF how = "response" THEN content_check(body) ELSE how
              then == after_primary(outcome)
          IN  cnv' = IF next = "retry"
                     THEN [tried EXCEPT !.attempt = @ + 1]
                     ELSE LET ended == [tried EXCEPT
                                          !.primary = outcome,
                                          !.content = IF how = "response" THEN body ELSE @]
                          IN  CASE then = "return" ->
                                     [ended EXCEPT !.pc = "done", !.result = body]
                                [] then = "fallback" -> CallFallback(ended)
                                [] OTHER -> [ended EXCEPT !.pc = "done", !.raised = TRUE]
    /\ UNCHANGED <<crawlState, cls, ext, bat, rty, sfe, dyn, frg, late>>

\* One attempt of the fallback's _get_with_retry, then the wrapper, then, when the
\* wrapper is through, the parsing and the return of the fallback, which
\* convert_to_markdown returns.
CnvFallback ==
    /\ cnv.pc = "fallback"
    /\ \E got \in HttpEnds, raises \in BOOLEAN :
          LET how == raise_for_status(got)
              tried == [cnv EXCEPT !.fb_requests = @ + 1, !.log = Append(@, how),
                                   !.wire = Append(@, [to |-> "target", got |-> got])]
              next == retry_with_backoff(MAX_RETRIES, cnv.fb_attempt, request_ended(how))
              text == fallback_result(how, raises, cnv.page)
          IN  cnv' = IF next = "retry"
                     THEN [tried EXCEPT !.fb_attempt = @ + 1]
                     ELSE [tried EXCEPT !.pc = "done", !.fb_result = text, !.result = text,
                                        !.fb_ended = how,
                                        !.parse_raised = (how = "response" /\ raises)]
    /\ UNCHANGED <<crawlState, cls, ext, bat, rty, sfe, dyn, frg, late>>

NextConvert == CnvPrimary \/ CnvFallback

----------------------------------------------------------------------------
(* scrape_websites: the crawls of a list of start URLs, one after the other.   *)
(* Every call of scrape_website has its own locals; a DataFrame is kept as the *)
(* sequence of its rows.                                                       *)

MaxUrls == 2            \* URLs in the list given to scrape_websites
MaxBatchWork == 2       \* max_depth * max_breadth of the crawls of one batch

BatchUrls == {Url("self", 0, FALSE)}

BatIdle ==
    [pc |-> "idle", url_list |-> <<>>, i |-> 0,
     open |-> 0,            \* history: sessions the calls that returned left open
     all_dfs |-> <<>>, result |-> <<>>]

InitBatch ==
    \E urls \in SeqsUpTo(BatchUrls, MaxUrls) :
        bat = [BatIdle EXCEPT !.pc = "loop", !.url_list = urls]

new_visited_shared(previous) == previous

\* visited = set(), a local of the call of scrape_website
new_visited(previous) == {}

\* for url in url_list: df = scrape_website(url, max_depth=..., max_breadth=..., ...)
BatCall ==
    /\ bat.pc = "loop"
    /\ bat.i < Len(bat.url_list)
    /\ bat' = [bat EXCEPT !.pc = "crawl", !.i = @ + 1]
    /\ pc' = "start"
    /\ start_url' = bat.url_list[bat.i + 1]
    /\ sessions' = 0
    /\ quits' = 0
    /\ visited' = new_visited(visited)
    /\ stack' = <<>>
    /\ all_job_postings' = <<>>
    /\ navCount' = [u \in KnownUrls |-> 0]
    /\ navDeepest' = -1
    /\ lastCut' = FALSE
    /\ lastRet' = "none"
    /\ result' = "none"
    /\ raised' = FALSE
    /\ UNCHANGED <<max_depth, max_breadth, world, cls, ext, cnv, rty, sfe, dyn, frg, late>>

\* The DataFrame scrape_website returned: pd.DataFrame() after a failed
\* initialisation, pd.DataFrame(all_job_postings) otherwise.
df == IF result = "df" THEN all_job_postings ELSE <<>>

\* scrape_website returned: if not df.empty: all_dfs.append(df)
BatCollect ==
    /\ bat.pc = "crawl"
    /\ pc = "done"
    /\ ~raised
    /\ bat' = [bat EXCEPT !.pc = "loop",
                          !.open = @ + sessions - quits,
                          !.all_dfs = IF df # <<>> THEN Append(@, df) ELSE @]
    /\ pc' = "idle"
    /\ UNCHANGED <<params, sessions, quits, visited, stack, all_job_postings, nav,
                   lastRet, result, raised, cls, ext, cnv, rty, sfe, dyn, frg, late>>

RECURSIVE concat(_)
\* pd.concat(all_dfs, ignore_index=True): the rows of the frames, in order
concat(dfs) == IF dfs = <<>> THEN <<>> ELSE Head(dfs) \o concat(Tail(dfs))

\* After the loop: pd.concat(all_dfs, ignore_index=True) if all_dfs else pd.DataFrame()
BatReturn ==
    /\ bat.pc = "loop"
    /\ bat.i = Len(bat.url_list)
    /\ bat' = [bat EXCEPT !.pc = "done",
                          !.result = IF bat.all_dfs # <<>> THEN concat(bat.all_dfs) ELSE <<>>]
    /\ UNCHANGED <<crawlState, cls, ext, cnv, rty, sfe, dyn, frg, late>>

NextBatch == BatCall \/ NextCrawl \/ BatCollect \/ BatReturn

----------------------------------------------------------------------------
(* error_utils.with_retry: one call of a function wrapped by                   *)
(* with_retry(max_attempts, backoff_factor, jitter, exceptions).  A call of    *)
(* the wrapped function returns a value, raises an exception of `exceptions`,  *)
(* or raises another exception; values and exceptions are numbered by the call *)
(* they come from.                                                             *)

MaxAttempts == 3        \* max_attempts is 0 .. MaxAttempts
MaxBackoff == 3         \* backoff_factor is 1 .. MaxBackoff

CallEnds == {"value", "listed exception", "other exception"}

NoException == [kind |-> "none", of |-> 0]

RtyIdle ==
    [pc |-> "idle", max_attempts |-> 0, backoff_factor |-> 1, jitter |-> FALSE,
     attempt |-> 1,
     calls |-> <<>>,            \* history: how each call of the wrapped function ended
     sleeps |-> <<>>,           \* history: the time of each sleep, before the jitter
     last_exception |-> NoException,
     returned |-> 0, raised |-> NoException]

InitRetry ==
    \E n \in 0 .. MaxAttempts, b \in 1 .. MaxBackoff, j \in BOOLEAN :
        rty = [RtyIdle EXCEPT !.pc = "loop", !.max_attempts = n, !.backoff_factor = b,
                              !.jitter = j]

with_retry_gives_up_early(max_attempts, attempt, ended) ==
    CASE ended = "value" -> "return"
      [] ended = "listed exception" ->
            IF attempt < max_attempts - 1 THEN "sleep" ELSE "give up"
      [] OTHER -> "propagate"

\* What the wrapper does after call number `attempt` (from 1) of the wrapped
\* function: return its value; after an exception of `exceptions`, sleep and call
\* again if attempt < max_attempts, else leave the loop; an exception of another
\* type is not caught.
with_retry(max_attempts, attempt, ended) ==
    CASE ended = "value" -> "return"
      [] ended = "listed exception" -> IF attempt < max_attempts THEN "sleep" ELSE "give up"
      [] OTHER -> "propagate"

RECURSIVE Power(_, _)
Power(b, e) == IF e = 0 THEN 1 ELSE b * Power(b, e - 1)

\* One turn of "for attempt in range(1, max_attempts + 1)"
RtyAttempt ==
    /\ rty.pc = "loop"
    /\ rty.attempt <= rty.max_attempts
    /\ \E ended \in CallEnds :
          LET step == with_retry(rty.max_attempts, rty.attempt, ended)
              called == [rty EXCEPT !.calls = Append(@, ended)]
              e == [kind |-> ended, of |-> rty.attempt]
          IN  rty' = CASE step = "return" ->
                            [called EXCEPT !.pc = "done", !.returned = rty.attempt]
                       [] step = "propagate" ->
                            [called EXCEPT !.pc = "done", !.raised = e]
                       [] step = "sleep" ->
                            [called EXCEPT !.last_exception = e,
                                           !.sleeps = Append(@, Power(rty.backoff_factor,
                                                                      rty.attempt - 1)),
                                           !.attempt = @ + 1]
                       [] OTHER ->
                            [called EXCEPT !.last_exception = e, !.attempt = @ + 1]
    /\ UNCHANGED <<crawlState, cls, ext, cnv, bat, sfe, dyn, frg, late>>

\* After the loop: raise last_exception, or RuntimeError when there is none.
RtyGiveUp ==
    /\ rty.pc = "loop"
    /\ rty.attempt > rty.max_attempts
    /\ rty' = [rty EXCEPT !.pc = "done",
                          !.raised = IF rty.last_exception # NoException
                                     THEN rty.last_exception
                                     ELSE [kind |-> "RuntimeError", of |-> 0]]
    /\ UNCHANGED <<crawlState, cls, ext, cnv, bat, sfe, dyn, frg, late>>

NextRetry == RtyAttempt \/ RtyGiveUp

----------------------------------------------------------------------------
(* error_utils.safe_execute(func, default_value, log_exception): one call.     *)
(* func returns a value or raises; it is a function, with a __name__, or       *)
(* another callable without one (a functools.partial, an object with           *)
(* __call__).                                                                  *)

Values == {"None", "success", "default", "0"}

FuncEnds == {"value", "Exception", "BaseException"}

SfeIdle ==
    [pc |-> "idle", default_value |-> "None", log_exception |-> TRUE, named |-> TRUE,
     calls |-> 0,               \* history: calls of func
     ended |-> "none",          \* history: how the call of func ended
     value |-> "None",          \* history: the value func returned
     returned |-> "nothing", raised |-> "none"]

InitSafe ==
    \E d \in Values, l \in BOOLEAN, n \in BOOLEAN :
        sfe = [SfeIdle EXCEPT !.pc = "call", !.default_value = d, !.log_exception = l,
                              !.named = n]

\* try: return func(*args, **kwargs) / except Exception as e:
SfeCall ==
    /\ sfe.pc = "call"
    /\ \E ended \in FuncEnds, v \in Values :
          LET called == [sfe EXCEPT !.calls = @ + 1, !.ended = ended]
          IN  sfe' = CASE ended = "value" ->
                            [called EXCEPT !.pc = "done", !.value = v, !.returned = v]
                       [] ended = "Exception" -> [called EXCEPT !.pc = "handler"]
                       [] OTHER -> [called EXCEPT !.pc = "done", !.raised = "BaseException"]
    /\ UNCHANGED <<crawlState, cls, ext, cnv, bat, rty, dyn, frg, late>>

\* The handler: "if log_exception:" it formats func.__name__ into the log line,
\* which raises AttributeError when func has no __name__; then return default_value.
handler(log_exception, named) ==
    IF log_exception /\ ~named THEN "AttributeError" ELSE "return default"

SfeHandle ==
    /\ sfe.pc = "handler"
    /\ sfe' = IF handler(sfe.log_exception, sfe.named) = "return default"
              THEN [sfe EXCEPT !.pc = "done", !.returned = sfe.default_value]
              ELSE [sfe EXCEPT !.pc = "done", !.raised = "AttributeError"]
    /\ UNCHANGED <<crawlState, cls, ext, cnv, bat, rty, dyn, frg, late>>

NextSafe == SfeCall \/ SfeHandle

----------------------------------------------------------------------------
(* The dynamic-content step of a page: safe_repeatedly_scroll, then            *)
(* safe_random_clicks, then the page goes on to its iframes.  Every call of    *)
(* the browser returns or raises an Exception; the height of the document is   *)
(* 1 .. MaxHeight.                                                             *)

MaxScrolls == 5         \* max_scrolls is 0 .. MaxScrolls; recurse_scrape passes 5
MaxHeight == 3          \* document.body.scrollHeight is 1 .. MaxHeight
MaxClicks == 3          \* clicks is 0 .. MaxClicks; recurse_scrape passes 1 .. 3

Heights == 1 .. MaxHeight

\* Where the browser raises in one turn of the scroll loop
ScrollRaises == {"none", "scrollTo", "scrollHeight"}

\* window.innerWidth and window.innerHeight: the call raises, or one of them is 0,
\* or both are positive.
Viewports == {"raised", "empty", "ok"}

\* How one turn of the click loop goes, in a viewport that is not empty
ClickEnds == {"elementFromPoint raised", "no element", "tag_name raised",
              "logout link", "clicked", "click raised",
              "intercepted, scrollBy raised", "intercepted, clicked",
              "intercepted, click raised"}

DynIdle ==
    [pc |-> "idle", max_scrolls |-> 0, last_height |-> 0, scroll_count |-> 0,
     successful_scrolls |-> 0,
     scroll_calls |-> 0,        \* history: the scrolls to the bottom asked of the browser
     seen |-> 0,                \* history: new_height of the last turn; 0: the turn raised
     scrolled |-> -1,           \* what safe_repeatedly_scroll returned; -1: not yet
     clicks |-> 0, viewport |-> "none", i |-> 0, successful_clicks |-> 0,
     clicked |-> -1,            \* what safe_random_clicks returned; -1: not yet
     scroll_caught |-> FALSE,   \* history: an exception was caught while scrolling
     click_caught |-> FALSE]    \* history: an exception was caught while clicking

InitDynamic ==
    \E m \in 0 .. MaxScrolls, c \in 0 .. MaxClicks :
        dyn = [DynIdle EXCEPT !.pc = "scroll start", !.max_scrolls = m, !.clicks = c]

scroll_iteration_ignores_height(last_height, raises, new_height) ==
    IF raises # "none" THEN "caught" ELSE "scrolled"

\* One turn of "while scroll_count < max_scrolls:": an exception of the scroll or
\* of the height read is caught by the turn's own except; an unchanged height
\* leaves the loop; otherwise the turn counts as a successful scroll.
scroll_iteration(last_height, raises, new_height) ==
    CASE raises # "none" -> "caught"
      [] new_height = last_height -> "break"
      [] OTHER -> "scrolled"

\* The first read of the height, before the loop: an exception is caught by the
\* outer except, which returns 0.
DynScrollStart ==
    /\ dyn.pc = "scroll start"
    /\ \E raises \in BOOLEAN, h \in Heights :
          dyn' = IF raises
                 THEN [dyn EXCEPT !.pc = "clicks start", !.scrolled = 0,
                                  !.scroll_caught = TRUE]
                 ELSE [dyn EXCEPT !.pc = "scroll", !.last_height = h]
    /\ UNCHANGED <<crawlState, cls, ext, cnv, bat, rty, sfe, frg, late>>

DynScroll ==
    /\ dyn.pc = "scroll"
    /\ dyn.scroll_count < dyn.max_scrolls
    /\ \E raises \in ScrollRaises, h \in Heights :
          LET step == scroll_iteration(dyn.last_height, raises, h)
              turn == [dyn EXCEPT !.scroll_calls = @ + 1,
                                  !.seen = IF raises = "none" THEN h ELSE 0]
          IN  dyn' = CASE step = "caught" ->
                            [turn EXCEPT !.scroll_count = @ + 1, !.scroll_caught = TRUE]
                       [] step = "break" ->
                            [turn EXCEPT !.pc = "clicks start",
                                         !.scrolled = dyn.successful_scrolls]
                       [] step = "scrolled" ->
                            [turn EXCEPT !.last_height = h, !.scroll_count = @ + 1,
                                         !.successful_scrolls = @ + 1]
                       [] OTHER -> [turn EXCEPT !.pc = "abandoned"]
    /\ UNCHANGED <<crawlState, cls, ext, cnv, bat, rty, sfe, frg, late>>

\* The loop ends at the cap: return successful_scrolls
DynScrollReturn ==
    /\ dyn.pc = "scroll"
    /\ dyn.scroll_count >= dyn.max_scrolls
    /\ dyn' = [dyn EXCEPT !.pc = "clicks start", !.scrolled = dyn.successful_scrolls]
    /\ UNCHANGED <<crawlState, cls, ext, cnv, bat, rty, sfe, frg, late>>

\* The reads of window.innerWidth and window.innerHeight, before the loop: an
\* exception is caught by the outer except, which returns successful_clicks.
DynClicksStart ==
    /\ dyn.pc = "clicks start"
    /\ \E v \in Viewports :
          dyn' = IF v = "raised"
                 THEN [dyn EXCEPT !.pc = "iframes", !.viewport = v, !.clicked = 0,
                                  !.click_caught = TRUE]
                 ELSE [dyn EXCEPT !.pc = "click", !.viewport = v]
    /\ UNCHANGED <<crawlState, cls, ext, cnv, bat, rty, sfe, frg, late>>

safe_random_click_unguarded(viewport, ended) ==
    CASE viewport = "empty" -> [flow |-> "return", clicked |-> 0, caught |-> TRUE]
      [] ended \in {"no element", "logout link"} ->
            [flow |-> "next", clicked |-> 0, caught |-> FALSE]
      [] ended \in {"clicked", "intercepted, clicked"} ->
            [flow |-> "next", clicked |-> 1, caught |-> ended # "clicked"]
      [] ended = "intercepted, scrollBy raised" ->
            [flow |-> "propagate", clicked |-> 0, caught |-> TRUE]
      [] OTHER -> [flow |-> "next", clicked |-> 0, caught |-> TRUE]

\* One turn of "for i in range(clicks):".  In an empty viewport random.randint
\* raises ValueError before x or y is bound, the turn's except raises
\* UnboundLocalError while it formats them, and the outer except ends the
\* function.  Otherwise: no element, or a logout link, is passed over; a click
\* counts; ElementClickInterceptedException leads to a scroll and a second
\* click, whose exception is caught in place; every other exception, the one of
\* the scroll after an intercepted click included, is caught by the turn's
\* except.
safe_random_click(viewport, ended) ==
    CASE viewport = "empty" -> [flow |-> "return", clicked |-> 0, caught |-> TRUE]
      [] ended \in {"no element", "logout link"} ->
            [flow |-> "next", clicked |-> 0, caught |-> FALSE]
      [] ended \in {"clicked", "intercepted, clicked"} ->
            [flow |-> "next", clicked |-> 1, caught |-> ended # "clicked"]
      [] OTHER -> [flow |-> "next", clicked |-> 0, caught |-> TRUE]

DynClick ==
    /\ dyn.pc = "click"
    /\ dyn.i < dyn.clicks
    /\ \E ended \in ClickEnds :
          LET turn == safe_random_click(dyn.viewport, ended)
              counted == [dyn EXCEPT !.successful_clicks = @ + turn.clicked,
                                     !.click_caught = @ \/ turn.caught]
          IN  dyn' = CASE turn.flow = "next" -> [counted EXCEPT !.i = @ + 1]
                       [] turn.flow = "return" ->
                            [counted EXCEPT !.pc = "iframes",
                                            !.clicked = counted.successful_clicks]
                       [] OTHER -> [counted EXCEPT !.pc = "abandoned"]
    /\ UNCHANGED <<crawlState, cls, ext, cnv, bat, rty, sfe, frg, late>>

\* The loop is over: return successful_clicks; recurse_scrape goes on to the
\* page's iframes and links.
DynClicksReturn ==
    /\ dyn.pc = "click"
    /\ dyn.i >= dyn.clicks
    /\ dyn' = [dyn EXCEPT !.pc = "iframes", !.clicked = dyn.successful_clicks]
    /\ UNCHANGED <<crawlState, cls, ext, cnv, bat, rty, sfe, frg, late>>

NextDynamic ==
    DynScrollStart \/ DynScroll \/ DynScrollReturn \/ DynClicksStart \/ DynClick
        \/ DynClicksReturn

----------------------------------------------------------------------------
(* remove_fragment on the text of a URL.  The text is "http:" followed by     *)
(* characters; urlparse and urlunparse are computed as urllib.parse does.     *)

MaxUrlLen == 4          \* characters of a URL after "http:"

UrlChars == {"/", "a", "[", "?", "#"}

UrlTexts == {<<"http:">> \o t : t \in SeqsUpTo(UrlChars, MaxUrlLen)}

\* s[m .. n] as Python slices it: positions outside s are left out
Slice(s, m, n) ==
    LET last == IF n < Len(s) THEN n ELSE Len(s)
    IN  IF m > last THEN <<>> ELSE [i \in 1 .. last - m + 1 |-> s[i + m - 1]]

\* The position of the first element of `s` that is in `set`, Len(s) + 1 if none
RECURSIVE Find(_, _)
Find(s, set) == IF s = <<>> \/ Head(s) \in set THEN 1 ELSE 1 + Find(Tail(s), set)

Before(s, set) == Slice(s, 1, Find(s, set) - 1)

After(s, set) == Slice(s, Find(s, set) + 1, Len(s))

From(s, set) == Slice(s, Find(s, set), Len(s))

\* urlparse(href): the scheme is http; "//" starts the netloc, which ends at the
\* first "/", "?" or "#"; a "[" in the netloc without its "]" raises ValueError;
\* the fragment is what follows the first "#", the query what follows the first
\* "?" before it.
urlparse(href) ==
    LET rest == Tail(href)
        has_netloc == Len(rest) >= 2 /\ rest[1] = "/" /\ rest[2] = "/"
        after == IF has_netloc THEN Slice(rest, 3, Len(rest)) ELSE rest
        net == IF has_netloc THEN Before(after, {"/", "?", "#"}) ELSE <<>>
        tail == IF has_netloc THEN From(after, {"/", "?", "#"}) ELSE after
        nofrag == Before(tail, {"#"})
    IN  [raises |-> \E i \in 1 .. Len(net) : net[i] = "[",
         netloc |-> net,
         path |-> Before(nofrag, {"?"}),
         query |-> After(nofrag, {"?"}),
         fragment |-> After(tail, {"#"})]

\* urlunparse(parsed): "//" and the netloc are written when there is a netloc or
\* the path does not begin with "//"; an empty query and an empty fragment are
\* not written.
urlunparse(parsed) ==
    LET rooted == IF parsed.path # <<>> /\ Head(parsed.path) # "/"
                  THEN <<"/">> \o parsed.path ELSE parsed.path
        url == IF parsed.netloc # <<>> \/ Slice(parsed.path, 1, 2) # <<"/", "/">>
               THEN <<"/", "/">> \o parsed.netloc \o rooted
               ELSE parsed.path
    IN  <<"http:">> \o url
           \o (IF parsed.query # <<>> THEN <<"?">> \o parsed.query ELSE <<>>)
           \o (IF parsed.fragment # <<>> THEN <<"#">> \o parsed.fragment ELSE <<>>)

\* remove_fragment(href) on the text of href: urlunparse(parsed._replace(fragment
\* = "")), and href itself when urlparse raises.
remove_fragment_text(href) ==
    LET parsed == urlparse(href)
    IN  IF parsed.raises THEN href ELSE urlunparse([parsed EXCEPT !.fragment = <<>>])

FrgIdle == [pc |-> "idle", href |-> <<>>, stripped |-> <<>>, extended |-> <<>>, twice |-> <<>>]

InitFragment == \E u \in UrlTexts : frg = [FrgIdle EXCEPT !.pc = "call", !.href = u]

\* remove_fragment is applied to href, to href + "#a" and to its own result.
FrgStrip ==
    /\ frg.pc = "call"
    /\ frg' = [frg EXCEPT !.pc = "done",
                          !.stripped = remove_fragment_text(frg.href),
                          !.extended = remove_fragment_text(frg.href \o <<"#", "a">>),
                          !.twice = remove_fragment_text(remove_fragment_text(frg.href))]
    /\ UNCHANGED <<crawlState, cls, ext, cnv, bat, rty, sfe, dyn, late>>

NextFragment == FrgStrip

----------------------------------------------------------------------------
(* One call of a function wrapped by retry_with_backoff(max_tries,             *)
(* backoff_factor), in the copy of scrape.py or in the copy of                 *)
(* html_to_markdown.py.  Each call of the wrapped function returns a value or  *)
(* raises: requests.RequestException, socket.error, selenium's                 *)
(* TimeoutException, or an exception of another type.                          *)

MaxTries == 3           \* max_tries is 0 .. MaxTries

Copies == {"scrape", "html_to_markdown"}

Exceptions == {"RequestException", "socket.error", "TimeoutException", "ValueError"}

\* The except clause of the wrapper: (requests.RequestException, socket.error,
\* TimeoutException) in scrape.py, requests.RequestException in html_to_markdown.py
retryable(copy, exception) ==
    IF copy = "scrape"
    THEN exception \in {"RequestException", "socket.error", "TimeoutException"}
    ELSE exception = "RequestException"

BkoIdle ==
    [pc |-> "idle", copy |-> "scrape", max_tries |-> 0, backoff_factor |-> 1,
     attempt |-> 0,
     calls |-> <<>>,            \* history: how each call of the wrapped function ended
     sleeps |-> <<>>,           \* history: the wait_time of each time.sleep
     raised |-> "none"]

InitBackoff ==
    \E c \in Copies, n \in 0 .. MaxTries, b \in 1 .. MaxBackoff :
        bko = [BkoIdle EXCEPT !.pc = "loop", !.copy = c, !.max_tries = n,
                              !.backoff_factor = b]

\* One turn of "for attempt in range(max_tries):"
BkoAttempt ==
    /\ bko.pc = "loop"
    /\ bko.attempt < bko.max_tries
    /\ \E ended \in {"value"} \cup Exceptions :
          LET kind == CASE ended = "value" -> "value"
                        [] retryable(bko.copy, ended) -> "retryable"
                        [] OTHER -> "other"
              step == retry_with_backoff(bko.max_tries, bko.attempt, kind)
              called == [bko EXCEPT !.calls = Append(@, ended)]
          IN  bko' = CASE step = "return" -> [called EXCEPT !.pc = "done"]
                       [] step = "raise" -> [called EXCEPT !.pc = "done", !.raised = ended]
                       [] OTHER ->
                            [called EXCEPT !.sleeps = Append(@, Power(bko.backoff_factor,
                                                                      bko.attempt)),
                                           !.attempt = @ + 1]
    /\ UNCHANGED <<crawlState, cls, ext, cnv, bat, rty, sfe, dyn, frg, ifr, ssw>>

\* range(max_tries) is exhausted, which happens with max_tries = 0 only: the
\* wrapper returns None.
BkoFallThrough ==
    /\ bko.pc = "loop"
    /\ bko.attempt >= bko.max_tries
    /\ bko' = [bko EXCEPT !.pc = "done"]
    /\ UNCHANGED <<crawlState, cls, ext, cnv, bat, rty, sfe, dyn, frg, ifr, ssw>>

NextBackoff == BkoAttempt \/ BkoFallThrough

----------------------------------------------------------------------------
(* The iframe loop of one page and the browser's context: the top-level        *)
(* document, or the document of an iframe.  Every step inside the try of an    *)
(* iframe can raise, and so can driver.switch_to.default_content().            *)

MaxIframes == 2         \* iframes of one page

\* The step of the try at which the processing of an iframe raises
IframeFails == {"none", "switch_to.frame", "convert_to_markdown", "extract_job_postings",
                "find_elements", "is_job_posting_link", "default_content"}

\* driver.switch_to.default_content() in the handler: it returns, or it raises and
\* leaves the context where it was, or it raises after the context was reset.
HandlerEnds == {"returns", "raises", "raises after reset"}

IfrIdle ==
    [pc |-> "idle", iframes |-> <<>>, i |-> 1, context |-> "top",
     started_in |-> {},         \* history: the contexts the turns of the loop began in
     ends |-> <<>>,             \* history: where the try of each processed iframe raised
     enumerated_in |-> {}]      \* history: the contexts find_elements ran in after the loop

\* An iframe of the page: whether "if src and src not in visited" lets it in
InitIframes ==
    \E fresh \in SeqsUpTo(BOOLEAN, MaxIframes) :
        ifr = [IfrIdle EXCEPT !.pc = "loop", !.iframes = fresh]

process_iframe_bare_handler(fails, reset) ==
    CASE fails = "none" -> [context |-> "top", flow |-> "next"]
      [] fails = "switch_to.frame" -> [context |-> "top", flow |-> "next"]
      [] OTHER -> [context |-> "frame", flow |-> "next"]

\* The try of one iframe and its handler.  Without an exception the try ends
\* with default_content().  An exception - of switch_to.frame, which leaves the
\* context at the top, or of a later step, inside the iframe - is caught by
\* "except Exception", which calls default_content(); when that call raises, the
\* exception leaves the loop and the page fails.
process_iframe(fails, reset) ==
    LET at == IF fails \in {"none", "switch_to.frame"} THEN "top" ELSE "frame"
    IN  CASE fails = "none" -> [context |-> "top", flow |-> "next"]
          [] reset = "returns" -> [context |-> "top", flow |-> "next"]
          [] reset = "raises" -> [context |-> at, flow |-> "page fails"]
          [] OTHER -> [context |-> "top", flow |-> "page fails"]

\* One turn of "for iframe in iframe_elements:"
IfrTurn ==
    /\ ifr.pc = "loop"
    /\ ifr.i <= Len(ifr.iframes)
    /\ LET began == [ifr EXCEPT !.started_in = @ \cup {ifr.context}, !.i = @ + 1]
       IN  IF ~ifr.iframes[ifr.i]
           THEN ifr' = began
           ELSE \E fails \in IframeFails, reset \in HandlerEnds :
                   LET turn == process_iframe(fails, reset)
                   IN  ifr' = [began EXCEPT !.context = turn.context,
                                            !.ends = Append(@, fails),
                                            !.pc = IF turn.flow = "next" THEN "loop"
                                                                         ELSE "failed"]
    /\ UNCHANGED <<crawlState, cls, ext, cnv, bat, rty, sfe, dyn, frg, bko, ssw>>

\* After the loop: the anchors of footer, header and nav are enumerated.
IfrZones ==
    /\ ifr.pc = "loop"
    /\ ifr.i > Len(ifr.iframes)
    /\ ifr' = [ifr EXCEPT !.pc = "zones", !.enumerated_in = @ \cup {ifr.context}]
    /\ UNCHANGED <<crawlState, cls, ext, cnv, bat, rty, sfe, dyn, frg, bko, ssw>>

\* page_links = driver.find_elements(By.TAG_NAME, "a")
IfrLinks ==
    /\ ifr.pc = "zones"
    /\ ifr' = [ifr EXCEPT !.pc = "links", !.enumerated_in = @ \cup {ifr.context}]
    /\ UNCHANGED <<crawlState, cls, ext, cnv, bat, rty, sfe, dyn, frg, bko, ssw>>

NextIframes == IfrTurn \/ IfrZones \/ IfrLinks

----------------------------------------------------------------------------
(* main.safe_scrape_website: one call for one company.  Every attempt is one   *)
(* call of scrape_website, which runs the crawl above from a fresh browser     *)
(* session, visited set and accumulator.                                       *)

MaxRetryCount == 2      \* retry_count is 1 .. MaxRetryCount (the slider starts at 1)

CompanyNames == {"ACME"}

\* The columns of the frame a crawl returns are the keys of the objects the
\* extraction returned, which extract_job_postings passes on as they are: the six
\* keys of the prompt, or these and a key "company".
Columns == {"six keys", "six keys and company"}

\* How a call of scrape_website ends once its crawl is over: "return df", or an
\* exception of the finally (driver.quit()) which replaces the return.
ScrapeEnds == {"returns", "raises"}

SswIdle ==
    [pc |-> "idle", company_name |-> "", retry_count |-> 0,
     attempt |-> 0,         \* the loop variable
     crawls |-> 0,          \* history: calls of scrape_website
     ends |-> <<>>,         \* history: how each call ended
     sleeps |-> 0,          \* history: calls of time.sleep(2)
     returned |-> "nothing", \* what the call returned: "nothing" yet, "df", "None"
     frame |-> <<>>]        \* the frame it returned

InitSafeScrape ==
    \E name \in CompanyNames, n \in 1 .. MaxRetryCount :
        ssw = [SswIdle EXCEPT !.pc = "loop", !.company_name = name, !.retry_count = n]

\* for attempt in range(retry_count): df = scrape_website(url, max_depth=..., ...)
SswCall ==
    /\ ssw.pc = "loop"
    /\ ssw.attempt < ssw.retry_count
    /\ ssw' = [ssw EXCEPT !.pc = "crawl", !.crawls = @ + 1]
    /\ pc' = "start"
    /\ sessions' = 0
    /\ quits' = 0
    /\ visited' = new_visited(visited)
    /\ stack' = <<>>
    /\ all_job_postings' = <<>>
    /\ navCount' = [u \in KnownUrls |-> 0]
    /\ navDeepest' = -1
    /\ lastCut' = FALSE
    /\ lastRet' = "none"
    /\ result' = "none"
    /\ raised' = FALSE
    /\ UNCHANGED <<params, world, cls, ext, cnv, bat, rty, sfe, dyn, frg, bko, ifr>>

\* df.insert(0, "company", company_name): ValueError when the frame has a column
\* "company" already (allow_duplicates is False), else the column is added in
\* front of the others.
insert_company(frame, columns, name) ==
    IF columns = "six keys and company"
    THEN [raises |-> TRUE, df |-> frame]
    ELSE [raises |-> FALSE,
          df |-> [k \in 1 .. Len(frame) |-> [company |-> name, src |-> frame[k].src]]]

\* The body of the try of one attempt, after scrape_website ended: its exception
\* and the exception of df.insert go to "except Exception"; a frame that is not
\* empty is returned with the column; an empty one is logged.
attempt_of_retry(ended, frame, columns, name) ==
    IF ended = "raises"
    THEN [flow |-> "except", frame |-> <<>>]
    ELSE IF frame # <<>>
         THEN LET inserted == insert_company(frame, columns, name)
              IN  IF inserted.raises
                  THEN [flow |-> "except", frame |-> <<>>]
                  ELSE [flow |-> "return", frame |-> inserted.df]
         ELSE [flow |-> "empty", frame |-> <<>>]

\* scrape_website ended.  After an empty frame and in the handler:
\* if attempt < retry_count - 1: time.sleep(2); then the next attempt.
SswCollect ==
    /\ ssw.pc = "crawl"
    /\ pc = "done"
    /\ \E ended \in (IF result = "df" THEN ScrapeEnds ELSE {"returns"}),
          columns \in (IF df # <<>> THEN Columns ELSE {"six keys"}) :
          LET got == attempt_of_retry(ended, df, columns, ssw.company_name)
              end == [ended |-> ended, df |-> df, columns |-> columns,
                      open |-> sessions - quits]
          IN  ssw' = IF got.flow = "return"
                     THEN [ssw EXCEPT !.pc = "done",
                                      !.ends = Append(@, end),
                                      !.returned = "df",
                                      !.frame = got.frame]
                     ELSE [ssw EXCEPT !.pc = "loop",
                                      !.ends = Append(@, end),
                                      !.sleeps = IF ssw.attempt < ssw.retry_count - 1
                                                 THEN @ + 1 ELSE @,
                                      !.attempt = @ + 1]
    /\ pc' = "idle"
    /\ UNCHANGED <<params, sessions, quits, visited, stack, all_job_postings, nav,
                   lastRet, result, raised, cls, ext, cnv, bat, rty, sfe, dyn, frg,
                   bko, ifr>>

\* After the loop: return None
SswReturnNone ==
    /\ ssw.pc = "loop"
    /\ ssw.attempt = ssw.retry_count
    /\ ssw' = [ssw EXCEPT !.pc = "done", !.returned = "None"]
    /\ UNCHANGED <<crawlState, cls, ext, cnv, bat, rty, sfe, dyn, frg, bko, ifr>>

NextSafeScrape == SswCall \/ NextCrawl \/ SswCollect \/ SswReturnNone

----------------------------------------------------------------------------
(* The specifications *)

\* No crawl is running.
IdleCrawlWith(depth, breadth) ==
    /\ pc = "idle"
    /\ start_url = Url("self", 0, FALSE)
    /\ max_depth = depth
    /\ max_breadth = breadth
    /\ world = "any"
    /\ sessions = 0
    /\ quits = 0
    /\ visited = {}
    /\ stack = <<>>
    /\ all_job_postings = <<>>
    /\ navCount = [u \in KnownUrls |-> 0]
    /\ navDeepest = -1
    /\ lastCut = FALSE
    /\ lastRet = "none"
    /\ result = "none"
    /\ raised = FALSE

NoLate == bko = BkoIdle /\ ifr = IfrIdle /\ ssw = SswIdle

NoHelper == rty = RtyIdle /\ sfe = SfeIdle /\ dyn = DynIdle /\ frg = FrgIdle /\ NoLate

NoUnit == cls = ClsIdle /\ ext = ExtIdle /\ cnv = CnvIdle /\ bat = BatIdle /\ NoHelper

IdleCrawl == IdleCrawlWith(1, 1)

Init == InitCrawl /\ NoUnit

\* One call of is_job_posting_link, of extract_job_postings, of convert_to_markdown.
InitClassifyOnly ==
    IdleCrawl /\ InitClassify /\ ext = ExtIdle /\ cnv = CnvIdle /\ bat = BatIdle /\ NoHelper

InitExtractOnly ==
    IdleCrawl /\ cls = ClsIdle /\ InitExtract /\ cnv = CnvIdle /\ bat = BatIdle /\ NoHelper

InitConvertOnly ==
    IdleCrawl /\ cls = ClsIdle /\ ext = ExtIdle /\ InitConvert /\ bat = BatIdle /\ NoHelper

\* One call of scrape_websites: no crawl runs before its loop calls scrape_website.
InitBatchOnly ==
    /\ \E depth \in 1 .. MaxBatchWork, breadth \in 1 .. MaxBatchWork :
          depth * breadth <= MaxBatchWork /\ IdleCrawlWith(depth, breadth)
    /\ cls = ClsIdle /\ ext = ExtIdle /\ cnv = CnvIdle /\ InitBatch /\ NoHelper

SpecBatch == InitBatchOnly /\ [][NextBatch]_vars

\* One call of a function wrapped by with_retry.
InitRetryOnly ==
    IdleCrawl /\ cls = ClsIdle /\ ext = ExtIdle /\ cnv = CnvIdle /\ bat = BatIdle
              /\ InitRetry /\ sfe = SfeIdle /\ dyn = DynIdle /\ frg = FrgIdle /\ NoLate

SpecRetry == InitRetryOnly /\ [][NextRetry]_vars

\* One call of safe_execute.
InitSafeOnly ==
    IdleCrawl /\ cls = ClsIdle /\ ext = ExtIdle /\ cnv = CnvIdle /\ bat = BatIdle
              /\ rty = RtyIdle /\ InitSafe /\ dyn = DynIdle /\ frg = FrgIdle /\ NoLate

SpecSafe == InitSafeOnly /\ [][NextSafe]_vars

\* One call of remove_fragment.
InitFragmentOnly ==
    IdleCrawl /\ cls = ClsIdle /\ ext = ExtIdle /\ cnv = CnvIdle /\ bat = BatIdle
              /\ rty = RtyIdle /\ sfe = SfeIdle /\ dyn = DynIdle /\ InitFragment /\ NoLate

SpecFragment == InitFragmentOnly /\ [][NextFragment]_vars

\* The dynamic-content step of one page.  The helpers run in the program's one
\* thread and every call of the browser returns or raises.
InitDynamicOnly ==
    IdleCrawl /\ cls = ClsIdle /\ ext = ExtIdle /\ cnv = CnvIdle /\ bat = BatIdle
              /\ rty = RtyIdle /\ sfe = SfeIdle /\ InitDynamic /\ frg = FrgIdle /\ NoLate

SpecDynamic == InitDynamicOnly /\ [][NextDynamic]_vars /\ WF_vars(NextDynamic)

\* One call of a function wrapped by retry_with_backoff.
InitBackoffOnly ==
    IdleCrawl /\ cls = ClsIdle /\ ext = ExtIdle /\ cnv = CnvIdle /\ bat = BatIdle
              /\ rty = RtyIdle /\ sfe = SfeIdle /\ dyn = DynIdle /\ frg = FrgIdle
              /\ InitBackoff /\ ifr = IfrIdle /\ ssw = SswIdle

SpecBackoff == InitBackoffOnly /\ [][NextBackoff]_vars

\* The iframe loop of one page.
InitIframesOnly ==
    IdleCrawl /\ cls = ClsIdle /\ ext = ExtIdle /\ cnv = CnvIdle /\ bat = BatIdle
              /\ rty = RtyIdle /\ sfe = SfeIdle /\ dyn = DynIdle /\ frg = FrgIdle
              /\ bko = BkoIdle /\ InitIframes /\ ssw = SswIdle

SpecIframes == InitIframesOnly /\ [][NextIframes]_vars

\* One call of safe_scrape_website: no crawl runs before its loop calls
\* scrape_website.
InitSafeScrapeOnly ==
    /\ \E depth \in 1 .. MaxBatchWork, breadth \in 1 .. MaxBatchWork :
          depth * breadth <= MaxBatchWork /\ IdleCrawlWith(depth, breadth)
    /\ cls = ClsIdle /\ ext = ExtIdle /\ cnv = CnvIdle /\ bat = BatIdle
    /\ rty = RtyIdle /\ sfe = SfeIdle /\ dyn = DynIdle /\ frg = FrgIdle
    /\ bko = BkoIdle /\ ifr = IfrIdle /\ InitSafeScrape

SpecSafeScrape == InitSafeScrapeOnly /\ [][NextSafeScrape]_vars

SpecClassify == InitClassifyOnly /\ [][NextClassify]_vars

SpecExtract == InitExtractOnly /\ [][NextExtract]_vars

SpecConvert == InitConvertOnly /\ [][NextConvert]_vars

Next == NextCrawl

Spec == Init /\ [][Next]_vars

\* The program is one thread that runs on as long as it has a step to take, and
\* every remote call returns or fails.
FairSpec == Spec /\ WF_vars(Next)

----------------------------------------------------------------------------
(* Properties of the crawl *)

CleanUrls == DOMAIN navCount

Frames == {stack[i] : i \in 1 .. Len(stack)}

\* A step in which the page of the top frame fails.
FailStep == lastRet' = "failed" /\ Len(stack') < Len(stack)

\* A step in which the call of the top frame returns after its final loop.
DoneStep == lastRet' = "done" /\ Len(stack') < Len(stack)

\* A step of the top frame that leaves it on top.
SameFrame == stack # <<>> /\ stack' # <<>> /\ Len(stack') = Len(stack)

\* The first n elements of s, or all of s when it has fewer.
FirstN(s, n) == [i \in 1 .. (IF Len(s) <= n THEN Len(s) ELSE n) |-> s[i]]

IsPrefix(s, t) == Len(s) <= Len(t) /\ \A i \in 1 .. Len(s) : s[i] = t[i]

\* C1: in one crawl no fragment-stripped URL is navigated to more than once.
C1_NoUrlNavigatedTwice == \A u \in CleanUrls : navCount[u] <= 1

\* C2: on every exit path on which a browser session was created the session is
\* released exactly once: never twice, and never left open when scrape_website
\* has ended.
C2_SessionReleasedExactlyOnce ==
    /\ quits <= sessions
    /\ pc = "done" => quits = sessions

\* C3: a failure on a page is confined to that page: the failed call returns
\* normally to its caller, whose frame is as it was, so that the caller recurses
\* into its remaining links (it returns only when every retained link was called),
\* and scrape_website returns the result and raises nothing.
C3_PageFailureConfined ==
    /\ [](~raised)
    /\ [](pc = "done" /\ quits > 0 => result = "df")
    /\ [][FailStep => stack' = Tail(stack) /\ ~raised']_vars
    /\ [][DoneStep => Top.called = Top.links]_vars

\* C3 witness: a call for the first retained link of a page failed at depth >= 1
\* and the call for the next link has been made.
C3_Witness ==
    /\ lastRet = "failed"
    /\ Len(stack) >= 2
    /\ stack[1].phase = "enter"
    /\ stack[2].idx = 3
    /\ stack[2].called = stack[2].links

\* C4: every crawl eventually reaches its end, whatever the depth and breadth
\* limits and whatever the pages link to (cycles included), given that every
\* remote call returns or fails.
C4_CrawlTerminates == <>(pc = "done")

\* C4 witness: a crawl that came back to a URL it had navigated before has ended
\* with its result.
C4_Witness == pc = "done" /\ result = "df" /\ \E u \in CleanUrls : navCount[u] >= 2

\* C5: the browser navigates only in calls whose depth is below max_depth; with
\* max_depth = 1 the start page is the only page navigated to.
C5_NavigationBelowMaxDepth ==
    /\ navDeepest < max_depth
    /\ max_depth = 1 =>
          \A u \in CleanUrls : u # remove_fragment(start_url) => navCount[u] = 0

\* C5 witness: with max_depth = 1, a recursive call made for a link of the start
\* page has returned at the depth limit.
C5_Witness ==
    /\ max_depth = 1
    /\ lastRet = "leaf"
    /\ navCount[remove_fragment(start_url)] = 1
    /\ stack # <<>> /\ Top.called # <<>>

\* C6: the links retained on a page are the first max_breadth links classified as
\* job links, in the order in which their anchors were looped over (the anchors
\* of a document in document order), or all of them when there are no more than
\* max_breadth; exactly these are recursed into, in that order.
C6_FirstMaxBreadthLinksFollowed ==
    /\ [][SameFrame /\ Top.phase = "links" /\ Head(stack').phase = "links"
            => IsPrefix(Top.classified, Head(stack').classified)]_vars
    /\ [][SameFrame /\ Top.phase = "links" /\ Head(stack').phase # "links"
            => Head(stack').links = FirstN(Top.classified, max_breadth)]_vars
    /\ [](\A f \in Frames : f.called = FirstN(f.links, f.idx - 1))
    /\ [][DoneStep => /\ Top.called = Top.links
                      /\ Len(Top.called) <= max_breadth]_vars

\* C6 witness: a page with more classified links than max_breadth has made
\* exactly max_breadth recursive calls and its final loop is over.  The page is at
\* depth max_depth - 1, so every call it made returned at the depth limit and the
\* last truncation is its own.
C6_Witness ==
    /\ pc = "crawl" /\ stack # <<>>
    /\ Top.phase = "recurse"
    /\ Top.depth = max_depth - 1
    /\ lastCut
    /\ Top.idx > Len(Top.links)
    /\ Len(Top.called) = max_breadth
    /\ max_breadth >= 2

----------------------------------------------------------------------------
(* Properties of is_job_posting_link *)

\* The text is YES in any letter case, with nothing but white space around it.
IsYesToken(text) ==
    \E i \in 1 .. Len(text) - 2 :
        /\ text[i] \in {"Y", "y"}
        /\ text[i + 1] \in {"E", "e"}
        /\ text[i + 2] \in {"S", "s"}
        /\ \A j \in 1 .. Len(text) : j \notin {i, i + 1, i + 2} => text[j] \in Whitespace

C8_FailedOracleCallRetried ==
    /\ cls.calls <= ClassifyMaxTries
    /\ cls.pc = "done" /\ cls.first.kind = "error" => cls.calls = 2

----------------------------------------------------------------------------
(* Properties of extract_job_postings and convert_to_markdown *)

\* A record with exactly the six canonical keys, each mapped to a string.
IsJobPosting(p) ==
    /\ p.type = "object"
    /\ DOMAIN p.fields = CanonicalKeys
    /\ \A k \in DOMAIN p.fields : p.fields[k] = "str"

\* C9: every record extract_job_postings returns, which the crawl appends to its
\* result as it is, has exactly the six canonical keys, each mapped to a string,
\* whatever JSON the oracle answered.
C9_SixStringKeys ==
    ext.pc = "done" =>
        \A i \in 1 .. Len(ext.all_postings) : IsJobPosting(ext.all_postings[i])

\* C10: when every attempt of the primary request failed, the fallback is called
\* exactly once and convert_to_markdown returns what it returned; whatever
\* happens, convert_to_markdown returns a string and raises nothing.
C10_FallbackOnceAndNoRaise ==
    /\ ~cnv.raised
    /\ cnv.fallback_calls <= 1
    /\ cnv.pc = "done" =>
          /\ cnv.result \in ServiceBodies \cup {ErrorMarker, html_to_text(cnv.page)}
          /\ cnv.primary # "content" =>
                /\ cnv.fallback_calls = 1
                /\ cnv.result = cnv.fb_result
          /\ cnv.primary = "RequestException" =>
                cnv.requests = MAX_RETRIES /\ cnv.failures = MAX_RETRIES

\* C10 witness: the three primary requests failed, the three direct requests
\* failed too, and the error marker of the fallback was returned.
C10_Witness ==
    /\ cnv.pc = "done"
    /\ cnv.primary = "RequestException"
    /\ cnv.requests = MAX_RETRIES /\ cnv.failures = MAX_RETRIES
    /\ cnv.fb_requests = MAX_RETRIES
    /\ cnv.fallback_calls = 1
    /\ cnv.result = ErrorMarker

\* The target page has text outside the elements the fallback removes.
HasVisibleText(page) == \E i \in 1 .. Len(page) : page[i].tag = "p" /\ page[i].line # ""

\* C11: when the primary request ends with a response whose body is empty or
\* begins with the error marker, convert_to_markdown does not return that body
\* but what the one call of the fallback returns; and when the target page
\* answers with HTML that has text, and the parsing does not fail, that is not
\* empty.
C11_ErrorContentFallsBack ==
    cnv.pc = "done" /\ cnv.primary \notin {"RequestException", "other exception"}
                    /\ (cnv.content = <<>> \/ startswith_error(cnv.content)) =>
        /\ cnv.fallback_calls = 1
        /\ cnv.fb_requests >= 1
        /\ cnv.result = cnv.fb_result
        /\ cnv.fb_ended = "response" /\ ~cnv.parse_raised /\ HasVisibleText(cnv.page) =>
              /\ cnv.result # <<>>
              /\ cnv.result = html_to_text(cnv.page)

\* C11 witness: the service answered with a body that begins with the error
\* marker, the target page answered with text after hidden text, and the
\* markdown of the visible text was returned.
C11_Witness ==
    /\ cnv.pc = "done"
    /\ cnv.primary = "error content"
    /\ startswith_error(cnv.content)
    /\ cnv.fb_ended = "response" /\ ~cnv.parse_raised
    /\ Len(cnv.page) = 2 /\ cnv.page[1].tag = "nav" /\ cnv.page[1].line # ""
    /\ cnv.result = <<"## Engineer">>

\* C12: when the first primary request ends with a response whose body is not
\* empty and does not begin with the error marker, convert_to_markdown returns
\* that body unchanged after exactly one HTTP request and without a call of the
\* fallback.
C12_ValidContentReturned ==
    cnv.pc = "done" /\ Head(cnv.log) = "response"
                    /\ cnv.content # <<>> /\ ~startswith_error(cnv.content) =>
        /\ cnv.result = cnv.content
        /\ cnv.requests = 1
        /\ cnv.fb_requests = 0
        /\ Len(cnv.log) = 1
        /\ cnv.fallback_calls = 0

\* C12 witness: the service answered its first request with a body that has the
\* error marker only after its first word, and that body was returned.
C12_Witness ==
    /\ cnv.pc = "done"
    /\ cnv.log = <<"response">>
    /\ cnv.content = <<"Jobs", "Error:">>
    /\ cnv.result = <<"Jobs", "Error:">>
    /\ cnv.fallback_calls = 0

C14_FencedArraySameAsPlain ==
    ext.pc = "done" /\ ext.fenced => ext.added = ext.unfenced

----------------------------------------------------------------------------
(* Properties of the link filter and of the iframes *)

\* C15: on the page being scanned, no href that an anchor inside a header,
\* footer or nav element carries is given to the classifier, and every link
\* retained for the recursion was given to the classifier.
C15_IgnoredLinksNotClassified ==
    \A f \in Frames :
        f.phase = "links" =>
            /\ f.asked \cap f.ignored = {}
            /\ \A i \in 1 .. Len(f.classified) :
                  \E href \in f.asked : remove_fragment(href) = f.classified[i]

\* C16: every URL the browser navigated to, other than the start URL, has the
\* netloc of the start URL and begins with http; every href given to the
\* classifier and every link retained or recursed into does too.
SameSiteHttp(url) == netloc(url) = domain /\ startswith_http(url)

C16_OnlySameDomainHttp ==
    /\ \A u \in CleanUrls :
          navCount[u] > 0 => u = remove_fragment(start_url) \/ SameSiteHttp(u)
    /\ \A f \in Frames :
          /\ \A href \in f.asked : SameSiteHttp(href)
          /\ \A i \in 1 .. Len(f.classified) : SameSiteHttp(f.classified[i])
          /\ \A i \in 1 .. Len(f.links) : SameSiteHttp(f.links[i])
          /\ f.depth > 0 => SameSiteHttp(f.url)

\* C16 witness: on a page below the start page, navigated to once, the loop has
\* met the apply link of the other site (the apply link of the site itself would
\* have been classified, its URL not being visited) and has classified nothing.
C16_Witness ==
    /\ stack # <<>>
    /\ Top.phase = "links" /\ Top.seen = 2 /\ Top.asked = {} /\ Top.apply
    /\ Url("self", 1, FALSE) \notin visited
    /\ Top.depth = 1
    /\ navCount[Top.url] = 1

\* C17: only iframes whose src has the netloc of the start URL are marked
\* visited, converted and extracted: every visited URL other than start_url and
\* the source of every posting has that netloc.
C17_OnlySameOriginIframes ==
    /\ \A u \in visited : u = start_url \/ netloc(u) = domain
    /\ \A i \in 1 .. Len(all_job_postings) : netloc(all_job_postings[i].src) = domain

----------------------------------------------------------------------------
\* The scan of the page on top ends in this step without a failure: the loop over
\* the anchors is left for the dead-end return, the extraction or the final loop.
ScanEndStep ==
    /\ InPage("links")
    /\ ~FailStep
    /\ stack' # stack
    /\ ~(SameFrame /\ Head(stack').phase = "links")

\* The page on top is converted and extracted in this step.
ExtractStep ==
    /\ InPage("extract")
    /\ stack' # stack

\* C18: on a page whose scan ended without a failure, the page's own URL is converted
\* and passed to extraction if and only if an apply/submit signal was found on it,
\* and at most once per visit: the extraction is entered only from the end of the
\* scan, only with the signal, and is left for the final loop, which never leads
\* back; the postings it adds carry the page's URL.  A page with no retained
\* classified link and no signal returns at the end of its scan: no conversion of
\* its URL and no recursive call.
C18_ExtractIffApplySignal ==
    [][ /\ ScanEndStep =>
              LET kept == truncate(Top.classified, max_breadth)
              IN  /\ Top.apply <=> (SameFrame /\ Head(stack').phase = "extract")
                  /\ (kept = <<>> /\ ~Top.apply) <=> stack' = Tail(stack)
                  /\ all_job_postings' = all_job_postings
                  /\ visited' = visited
        /\ (stack' # <<>> /\ Head(stack').phase = "extract" /\ stack' # stack)
              => ScanEndStep /\ Head(stack').url = Top.url
        /\ ExtractStep =>
              /\ stack' = <<[Top EXCEPT !.phase = "recurse"]>> \o Tail(stack)
              /\ \E n \in 0 .. 1 : all_job_postings' = all_job_postings \o Postings(Top.url, n)
        /\ (InPage("recurse") /\ SameFrame) => Head(stack').phase = "recurse"
      ]_vars

\* A page without a retained link was converted and extracted once, a posting of
\* its own URL was added, and its final loop has nothing to call.
C18_Witness ==
    /\ InPage("recurse")
    /\ Top.links = <<>>
    /\ all_job_postings # <<>>
    /\ all_job_postings[Len(all_job_postings)].src = Top.url
    /\ lastRet = "dead end"

----------------------------------------------------------------------------
\* C19: the apply signal of a page does not depend on the filtering or the
\* classification of links: while the anchors of the page's document are looped
\* over, the signal is set exactly when an anchor with an href and a text that
\* contains apply or submit was met, whatever its site, its zone, the visited set
\* and the oracle's answer; an anchor without href does not set it.  The signal is
\* a local of the page that holds the anchor.
C19_ApplySignalFromAnyLinkedAnchor ==
    InPage("links") => (Top.apply <=> (Top.keyworded \ {NoHref} # {}))

\* The signal of the start page was set by an anchor of another site alone, which
\* was neither classified nor retained.
C19_Witness ==
    /\ InPage("links")
    /\ Top.apply
    /\ Top.keyworded = {Url("other", 1, FALSE)}
    /\ Top.classified = <<>>
    /\ Top.asked = {}

\* C19 as the specification states it: any anchor of the page's document whose text
\* contains apply or submit sets the signal.
C19_ApplySignalFromAnyAnchor ==
    InPage("links") => (Top.apply <=> (Top.keyworded # {}))

----------------------------------------------------------------------------
\* C20: when the browser session cannot be created, scrape_website navigates to no
\* page, classifies no link, converts and extracts nothing, and returns an empty
\* collection without raising: as long as no session exists there is no call of
\* recurse_scrape, nothing is visited, navigated or collected, and the function
\* ends with the empty result.
C20_NoSessionNoWork ==
    sessions = 0 =>
        /\ pc \in {"start", "done"}
        /\ stack = <<>>
        /\ visited = {}
        /\ all_job_postings = <<>>
        /\ \A u \in DOMAIN navCount : navCount[u] = 0
        /\ navDeepest = -1
        /\ lastRet = "none"
        /\ quits = 0
        /\ ~raised
        /\ pc = "done" => result = "empty"

\* scrape_website has returned and no session was ever created.
C20_Witness == pc = "done" /\ sessions = 0 /\ result = "empty"

----------------------------------------------------------------------------
(* Properties of scrape_websites *)

\* The browser sessions that are open: those the calls that returned left open and
\* those of the call that runs.
OpenSessions == bat.open + (IF bat.pc = "crawl" THEN sessions - quits ELSE 0)

\* C21: in a batch crawl at most one browser session is open at any time: the
\* session of the crawl of one URL has been released before the session of the
\* next URL is launched, whatever failed during the earlier crawl.
C21_AtMostOneSessionOpen == OpenSessions <= 1

\* C22: the visited set and the accumulator belong to one crawl: every call of
\* scrape_website starts with an empty accumulator and, when its recursion starts,
\* with a visited set that holds its own start URL only, whatever the earlier
\* crawls of the batch visited and collected; every posting of its accumulator is
\* of a URL it visited itself.
C22_VisitedAndAccumulatorPerCrawl ==
    bat.pc = "crawl" =>
        /\ pc \in {"start", "configure", "begin"} =>
              visited = {} /\ all_job_postings = <<>>
        /\ (pc = "crawl" /\ stack = <<Frame(start_url, 0)>>) =>
              visited = {start_url} /\ all_job_postings = <<>>
        /\ \A u \in CleanUrls : navCount[u] > 0 => \E v \in visited : remove_fragment(v) = u
        /\ \A k \in 1 .. Len(all_job_postings) : all_job_postings[k].src \in visited

\* The second crawl of a batch has navigated to a page the first crawl had
\* visited and extracted a posting from, and has collected a posting itself.
C22_Witness ==
    /\ bat.pc = "crawl" /\ bat.i = 2
    /\ bat.all_dfs # <<>>
    /\ \E k \in 1 .. Len(bat.all_dfs[1]) : bat.all_dfs[1][k].src = Url("self", 1, FALSE)
    /\ pc = "crawl"
    /\ navCount[Url("self", 1, FALSE)] = 1
    /\ all_job_postings # <<>>

----------------------------------------------------------------------------
(* Scenarios *)

\* C23: in scenario A (the start page has one link, with the text "Apply Now",
\* classified YES, that leads to a detail page with an apply signal; max_depth = 2;
\* one posting per extracted page) exactly one page, the detail page, is converted
\* and extracted: the result of the crawl has exactly one posting, of the detail
\* page.
C23_ScenarioAOnePosting ==
    (world = "scenario A" /\ pc = "done") =>
        /\ Len(all_job_postings) = 1
        /\ all_job_postings[1].src = Url("self", 1, FALSE)

----------------------------------------------------------------------------
(* Properties of the helpers of error_utils *)

\* The calls of the wrapped function before the last one all ended with an
\* exception of the listed types.
FailedBefore(k) == \A i \in 1 .. k - 1 : rty.calls[i] = "listed exception"

C26_SafeExecuteNeverRaises ==
    sfe.pc = "done" =>
        /\ sfe.calls = 1
        /\ sfe.raised \in {"none", "BaseException"}
        /\ sfe.ended = "value" => sfe.returned = sfe.value
        /\ sfe.ended = "Exception" => sfe.returned = sfe.default_value

----------------------------------------------------------------------------
\* C27: for every URL u, remove_fragment(u + "#x") = remove_fragment(u), also when
\* u already has a fragment, and remove_fragment is idempotent.
C27_FragmentStripped ==
    frg.pc = "done" =>
        /\ frg.extended = frg.stripped
        /\ frg.twice = frg.stripped

----------------------------------------------------------------------------
\* C28: within one crawl the visited set only grows: no step of the crawl removes
\* an element, so a URL that was marked stays in the set until the crawl ends, and
\* a step adds at most the one URL it marks.
C28_VisitedOnlyGrows ==
    [][ /\ visited \subseteq visited'
        /\ (pc = "begin" \/ InPage("recurse")) => Cardinality(visited' \ visited) <= 1
      ]_vars

\* A page below the start page has just failed, and the three URLs marked so far,
\* the URL of the failed page among them, are still in the set.
C28_Witness ==
    /\ pc = "crawl"
    /\ stack # <<>> /\ Top.phase = "recurse" /\ Top.called # <<>>
    /\ lastRet = "failed"
    /\ Top.called[Len(Top.called)] \in visited
    /\ Cardinality(visited) >= 3


\* C29: a failure of a scroll or click step never abandons the page: whatever the
\* browser raises, safe_repeatedly_scroll and safe_random_clicks return a count,
\* and the page always goes on to its iframes and links.
C29_DynamicStepNeverAbandons ==
    /\ [](/\ dyn.pc # "abandoned"
          /\ dyn.pc \in {"clicks start", "click", "iframes"}
                => dyn.scrolled \in 0 .. dyn.max_scrolls
          /\ dyn.pc = "iframes" => dyn.clicked \in 0 .. dyn.clicks)
    /\ <>(dyn.pc = "iframes")

\* The page has gone on to its iframes after the browser raised both while
\* scrolling and while clicking, with one click counted all the same.
C29_Witness ==
    /\ dyn.pc = "iframes"
    /\ dyn.scroll_caught
    /\ dyn.click_caught
    /\ dyn.clicked >= 1


\* The frames below the top one each wait in their final loop for the call of
\* the frame above them, which is for the last link they called, one level
\* deeper; and a frame in its final loop has called the first links of its list,
\* in the order of the list, without a gap.
DepthFirstChain ==
    /\ \A k \in 2 .. Len(stack) :
          /\ stack[k].phase = "recurse"
          /\ stack[k].called # <<>>
          /\ stack[k - 1].url = stack[k].called[Len(stack[k].called)]
          /\ stack[k - 1].depth = stack[k].depth + 1
    /\ \A k \in 1 .. Len(stack) :
          /\ stack[k].idx = Len(stack[k].called) + 1
          /\ stack[k].idx <= Len(stack[k].links) + 1
          /\ \A j \in 1 .. Len(stack[k].called) : stack[k].called[j] = stack[k].links[j]

\* A step of the crawl works on the top frame alone: the callers are untouched
\* until every call above them has returned.
CallersWait ==
    \/ stack = <<>>
    \/ stack' = <<>>
    \/ Len(stack') = Len(stack) /\ Tail(stack') = Tail(stack)
    \/ Len(stack') = Len(stack) - 1 /\ stack' = Tail(stack)
    \/ /\ Len(stack') = Len(stack) + 1
       /\ Tail(Tail(stack')) = Tail(stack)
       /\ stack'[2] = [Top EXCEPT !.idx = @ + 1, !.called = Append(@, stack'[1].url)]

\* The recursive call for a link: the link is the next of the list, it is marked
\* in this step and nothing else is.
MarkedAtCall ==
    (stack # <<>> /\ Len(stack') = Len(stack) + 1)
        => /\ Top.phase = "recurse"
           /\ Top.idx <= Len(Top.links)
           /\ stack'[1] = Frame(Top.links[Top.idx], Top.depth + 1)
           /\ visited' = visited \cup {Top.links[Top.idx]}

\* The step that builds the final list of a page marks nothing.
NotMarkedAtBuild ==
    (InPage("links") /\ Len(stack') = Len(stack)
                     /\ stack'[1].phase \in {"extract", "recurse"})
        => visited' = visited

\* C30: the traversal is depth-first in document order: a page calls its retained
\* links in the order of the list, the next one only after every call made for
\* the one before has returned, and each link is marked visited in the step of
\* its own recursive call, not when the list is built.
C30_DepthFirstInDocumentOrder ==
    /\ []DepthFirstChain
    /\ [][CallersWait /\ MarkedAtCall /\ NotMarkedAtBuild]_vars

\* The start page retained two links; the call for the first one is over, with a
\* call of its own one level down, and the page of the second one is loaded.
C30_Witness ==
    /\ pc = "crawl"
    /\ Len(stack) = 2
    /\ stack[2].depth = 0
    /\ Len(stack[2].links) = 2
    /\ stack[2].links[1] # stack[2].links[2]
    /\ stack[2].called = stack[2].links
    /\ stack[1].phase = "iframes"
    /\ lastRet = "done"
    /\ navCount[stack[2].links[1]] = 1
    /\ navCount[stack[2].links[2]] = 1


Failed(ended) == ended # "value"

\* C31: a function wrapped by retry_with_backoff(max_tries = n, backoff_factor = b)
\* is called at most n times; a further call follows only a request, socket or
\* timeout error; an exception of another type ends the wrapper with that
\* exception, without a further call; the wait before retry number k is b^(k-1);
\* and the n-th failure is re-raised without a wait.
C31_RetryWithBackoff ==
    LET n == bko.max_tries
        calls == bko.calls
    IN  /\ Len(calls) <= n
        /\ \A k \in 2 .. Len(calls) :
              calls[k - 1] \in {"RequestException", "socket.error", "TimeoutException"}
        /\ \A k \in 1 .. Len(calls) :
              calls[k] = "ValueError" =>
                  k = Len(calls) /\ bko.pc = "done" /\ bko.raised = "ValueError"
        /\ Len(bko.sleeps) <= n - 1 \/ bko.sleeps = <<>>
        /\ \A k \in 1 .. Len(bko.sleeps) :
              bko.sleeps[k] = Power(bko.backoff_factor, k - 1)
        /\ bko.pc = "loop" => Len(bko.sleeps) = Len(calls)
        /\ (bko.pc = "done" /\ calls # <<>>) => Len(bko.sleeps) = Len(calls) - 1
        /\ (bko.pc = "done" /\ Len(calls) = n /\ n > 0 /\ Failed(calls[n]))
              => bko.raised = calls[n]

\* Three calls failed with a retryable error: the wrapper waited 1 and then 2
\* seconds and raised the third error.
C31_Witness ==
    /\ bko.pc = "done"
    /\ bko.max_tries = 3
    /\ bko.backoff_factor = 2
    /\ Len(bko.calls) = 3
    /\ bko.sleeps = <<1, 2>>
    /\ bko.raised = "socket.error"


\* The requests of one call of convert_to_markdown, in order: at most MAX_RETRIES
\* to the conversion service, then at most MAX_RETRIES to the target URL, none to
\* the service after the first to the target; a status that is not a success is
\* followed by the next attempt unless it was the last; and the fallback runs
\* only once the primary path is over.
RequestsInOrder ==
    /\ cnv.requests <= MAX_RETRIES
    /\ cnv.fb_requests <= MAX_RETRIES
    /\ Len(cnv.wire) = cnv.requests + cnv.fb_requests
    /\ \A k \in 1 .. Len(cnv.wire) :
          cnv.wire[k].to = (IF k <= cnv.requests THEN "service" ELSE "target")
    /\ \A k \in 1 .. Len(cnv.wire) :
          (cnv.wire[k].got = "503" /\ k \notin {cnv.requests, Len(cnv.wire)})
              => cnv.wire[k + 1].to = cnv.wire[k].to
    /\ (cnv.requests \in 1 .. MAX_RETRIES - 1 /\ cnv.wire[cnv.requests].got = "503")
          => cnv.pc = "primary"
    /\ (cnv.fb_requests \in 1 .. MAX_RETRIES - 1 /\ cnv.wire[Len(cnv.wire)].got = "503")
          => cnv.pc = "fallback"
    /\ (cnv.fallback_calls > 0 \/ cnv.fb_requests > 0)
          => cnv.primary # "none" /\ cnv.pc \in {"fallback", "done"}

\* The three requests to the service failed with a retryable error.
PrimaryExhausted ==
    /\ cnv.primary = "RequestException"
    /\ cnv.requests = MAX_RETRIES
    /\ cnv.failures = MAX_RETRIES

\* C32 as stated: the requests are in order, and the fallback starts only after
\* the requests to the service are exhausted or error content was returned.
C32_FallbackOnlyAfterExhaustionOrErrorContent ==
    /\ RequestsInOrder
    /\ cnv.fallback_calls > 0 => PrimaryExhausted \/ cnv.primary = "error content"

\* C32: one call of convert_to_markdown issues at most 3 requests to the
\* conversion service, with a non-success status retried like a failed request,
\* then at most 3 direct requests to the target URL; the fallback starts only
\* when the primary path is over - its requests exhausted, error content or an
\* empty body returned, or an exception that is not a RequestException raised -
\* and no request goes to the service after that.
C32_PrimaryThenFallback ==
    /\ RequestsInOrder
    /\ cnv.fallback_calls > 0 =>
          \/ PrimaryExhausted
          \/ cnv.primary = "error content"
          \/ cnv.primary = "other exception" /\ cnv.requests <= MAX_RETRIES

\* The service answered 503 three times, the target answered 503 twice and then
\* with a page: six requests, the three to the service first.
C32_Witness ==
    /\ cnv.pc = "done"
    /\ cnv.requests = MAX_RETRIES
    /\ cnv.fb_requests = MAX_RETRIES
    /\ \A k \in 1 .. 5 : cnv.wire[k].got = "503"
    /\ cnv.wire[6].got = "200"
    /\ cnv.fb_ended = "response"


\* The counters of the scroll loop
ScrollCounts ==
    /\ dyn.scroll_calls <= dyn.max_scrolls
    /\ dyn.scroll_count <= dyn.max_scrolls
    /\ dyn.successful_scrolls <= dyn.scroll_count
    /\ dyn.scroll_calls \in {dyn.scroll_count, dyn.scroll_count + 1}
    /\ dyn.scroll_calls = dyn.scroll_count + 1 => dyn.pc # "scroll"
    /\ dyn.scrolled \in -1 .. dyn.max_scrolls
    /\ dyn.pc \in {"scroll start", "scroll"} <=> dyn.scrolled = -1
    /\ dyn.scrolled >= 0 => dyn.scrolled = dyn.successful_scrolls

\* One turn of the scroll loop: one scroll; when the height read after it equals
\* the previous height the function returns at once; otherwise - the height
\* changed, or the turn raised - scroll_count grows by one and the loop goes on.
ScrollTurn ==
    (dyn.pc = "scroll" /\ dyn'.scroll_calls # dyn.scroll_calls) =>
        /\ dyn.scroll_count < dyn.max_scrolls
        /\ dyn'.scroll_calls = dyn.scroll_calls + 1
        /\ IF dyn'.seen = dyn.last_height
           THEN /\ dyn'.pc = "clicks start"
                /\ dyn'.scrolled = dyn.successful_scrolls
                /\ dyn'.scroll_count = dyn.scroll_count
           ELSE /\ dyn'.pc = "scroll"
                /\ dyn'.scroll_count = dyn.scroll_count + 1
                /\ dyn'.successful_scrolls =
                      dyn.successful_scrolls + (IF dyn'.seen = 0 THEN 0 ELSE 1)
                /\ dyn'.last_height = (IF dyn'.seen = 0 THEN dyn.last_height ELSE dyn'.seen)

\* C33: safe_repeatedly_scroll ends after at most max_scrolls scrolls to the
\* bottom: it stops at the first scroll after which the height equals the
\* previous height, every turn that does not stop adds one to scroll_count, and
\* it returns a number of successful scrolls within 0 .. max_scrolls.
C33_ScrollLoopBounded ==
    /\ []ScrollCounts
    /\ [][ScrollTurn]_vars
    /\ <>(dyn.scrolled >= 0)

\* With max_scrolls = 5 the function returned 1 after three scrolls: one turn
\* raised, one changed the height, and the third found the height unchanged.
C33_Witness ==
    /\ dyn.pc = "clicks start"
    /\ dyn.max_scrolls = 5
    /\ dyn.scroll_calls = 3
    /\ dyn.scroll_count = 2
    /\ dyn.scroll_caught
    /\ dyn.seen = dyn.last_height
    /\ dyn.scrolled = 1


\* The call of recurse_scrape that was just made is for u.
Entering(u) == InPage("enter") /\ remove_fragment(Top.url) = u

\* C34: a URL that is marked visited and was not navigated - its own call
\* returned at the depth limit - is not navigated later in the crawl: no call
\* that navigates is made for it any more.
C34_MarkedUrlNeverNavigated ==
    [][\A u \in CleanUrls :
          (u \in visited /\ navCount[u] = 0 /\ ~Entering(u))
              => (Entering(u)' => at_depth_limit(stack'[1].depth))
      ]_vars


\* C35: every URL the browser has navigated to is in visited: the URL of every
\* call of recurse_scrape is in the set from the call on, so that the navigation
\* of the call, the one of the start URL included, is to an element of the set.
C35_NavigatedUrlsAreVisited ==
    /\ [](\A f \in Frames : f.url \in visited)
    /\ [](\A u \in CleanUrls :
            navCount[u] > 0 => \E v \in visited : remove_fragment(v) = u)
    /\ [][navCount' # navCount =>
            /\ InPage("enter")
            /\ Top.url \in visited
            /\ \A u \in CleanUrls : navCount'[u] # navCount[u] => u = remove_fragment(Top.url)
         ]_vars

\* After the start URL, given with a fragment, the page of a followed link is
\* loaded: both URLs, as the browser got them, are in the set.
C35_Witness ==
    /\ InPage("iframes")
    /\ Top.depth = 1
    /\ start_url.frag
    /\ navCount[remove_fragment(start_url)] = 1
    /\ navCount[Top.url] = 1
    /\ Top.url # remove_fragment(start_url)
    /\ {start_url, Top.url} \subseteq visited


\* The place of a phase in the course of one page
PhaseRank(phase) ==
    CASE phase = "enter" -> 0
      [] phase = "iframes" -> 1
      [] phase = "zones" -> 2
      [] phase = "links" -> 3
      [] phase = "extract" -> 4
      [] OTHER -> 5

\* The postings of the iframes of a list that are processed, iframe by iframe:
\* those with a src not marked before, and not the src of an earlier iframe of
\* the list, that the browser could switch into.
Processed(iframes, vis, i) ==
    /\ iframes[i].src # NoHref
    /\ iframes[i].src \notin vis
    /\ \A j \in 1 .. i - 1 : iframes[j].src # iframes[i].src
    /\ iframes[i].fail # "switch"

RECURSIVE InIframeOrder(_, _, _)
InIframeOrder(iframes, vis, i) ==
    IF i > Len(iframes) THEN <<>>
    ELSE (IF Processed(iframes, vis, i)
          THEN [k \in 1 .. iframes[i].posts |-> Posting(iframes[i].src)]
          ELSE <<>>) \o InIframeOrder(iframes, vis, i + 1)

\* A step that appends postings is the iframe loop of the top page, which
\* appends the postings of its iframes in iframe order before anything else of
\* the page, or the extraction of the top page, which appends postings of that
\* page before the first of its recursive calls.
AppendsInPreOrder ==
    all_job_postings' # all_job_postings =>
        \/ /\ InPage("iframes")
           /\ Len(stack') = Len(stack) /\ stack'[1].phase = "zones"
           /\ \E iframes \in IframesOffered :
                 all_job_postings' = all_job_postings \o InIframeOrder(iframes, visited, 1)
        \/ /\ InPage("extract")
           /\ Top.called = <<>> /\ Top.idx = 1
           /\ Len(stack') = Len(stack) /\ stack'[1].phase = "recurse"
           /\ \A i \in Len(all_job_postings) + 1 .. Len(all_job_postings') :
                 all_job_postings'[i] = Posting(Top.url)

\* The course of a page only goes forward.
PhaseForward ==
    (stack # <<>> /\ Len(stack') = Len(stack)) =>
        /\ stack'[1].url = Top.url
        /\ stack'[1].depth = Top.depth
        /\ PhaseRank(stack'[1].phase) >= PhaseRank(Top.phase)

\* C36: the collection is in depth-first pre-order: for each page the postings of
\* its iframes, in iframe order, then those of the page itself, then those of
\* the calls for its retained links in link order; and what was appended stays
\* where it is, also in the steps in which a page fails.
C36_PostingsInPreOrder ==
    [][/\ IsPrefix(all_job_postings, all_job_postings')
       /\ AppendsInPreOrder
       /\ PhaseForward
       /\ CallersWait
      ]_vars

\* A crawl ended with the postings of the two iframes of the start page, of the
\* start page, and of the page of its link, in that order.
C36_Witness ==
    /\ pc = "done"
    /\ result = "df"
    /\ lastRet = "done"
    /\ all_job_postings = <<Posting(Url("self", MaxPath, FALSE)), Posting(Url("other", 1, FALSE)),
                            Posting(Url("self", 0, FALSE)), Posting(Url("self", 1, FALSE))>>


\* C37: after the processing of each iframe, wherever it failed, the browser is
\* back in the top-level document before the next iframe is processed and before
\* the anchors of header, footer and nav and the links of the document are
\* enumerated; no enumeration of the document runs inside an iframe.
C37_ContextRestoredAfterIframe ==
    /\ ifr.started_in \subseteq {"top"}
    /\ ifr.enumerated_in \subseteq {"top"}
    /\ ifr.pc \in {"loop", "zones", "links"} => ifr.context = "top"
    /\ ifr.context = "frame" => ifr.pc = "failed"

\* The links of the document were enumerated after two iframes, the first of
\* which failed at the classification of a link and the second at the switch
\* into it.
C37_Witness ==
    /\ ifr.pc = "links"
    /\ ifr.ends = <<"is_job_posting_link", "switch_to.frame">>
    /\ ifr.enumerated_in = {"top"}


\* The attempt that ended as `end` failed: scrape_website raised or returned an
\* empty frame.
FailedAttempt(end) == end.ended = "raises" \/ end.df = <<>>

\* The frame `frame` with the column "company" in front of its columns.
WithCompany(frame, name) ==
    [k \in 1 .. Len(frame) |-> [company |-> name, src |-> frame[k].src]]

\* C38: safe_scrape_website runs at most retry_count crawls, one after the other,
\* each from an empty visited set and accumulator; the first crawl that returns a
\* frame that is not empty ends the call, which returns that frame with the column
\* "company" added; an empty frame and an exception of the crawl are failed
\* attempts alike, after which the next attempt runs; when all retry_count
\* attempts failed the call returns None.
C38_FirstNonEmptyResultReturned ==
    /\ ssw.crawls <= ssw.retry_count
    /\ Len(ssw.ends) = ssw.crawls - (IF ssw.pc = "crawl" THEN 1 ELSE 0)
    /\ (ssw.pc = "crawl" /\ pc \in {"start", "configure", "begin"}) =>
           visited = {} /\ all_job_postings = <<>>
    /\ \A k \in 1 .. Len(ssw.ends) :
           IF FailedAttempt(ssw.ends[k])
           THEN ssw.attempt >= k
           ELSE /\ k = Len(ssw.ends)
                /\ ssw.pc = "done"
                /\ ssw.returned = "df"
                /\ ssw.frame = WithCompany(ssw.ends[k].df, ssw.company_name)
    /\ ssw.returned = "None" <=>
           /\ ssw.pc = "done"
           /\ Len(ssw.ends) = ssw.retry_count
           /\ \A k \in 1 .. Len(ssw.ends) : FailedAttempt(ssw.ends[k])

====
